---- MODULE Spec2Model ----
(***************************************************************************)
(* A model of netsuite-cli: the preference store (LoadConfig, SaveConfig,   *)
(* LoadUserConfig, SaveUserConfig, GetCompanyPrefix), the create command   *)
(* (cmd/init.go, runInit) and the add command (runAdd with its folder      *)
(* catalog and interactive selector).                                      *)
(*                                                                         *)
(* Go strings are byte strings.  A string is modelled as a sequence of     *)
(* bytes; an ASCII byte is written as the one-character string it prints   *)
(* as, any other byte as its hexadecimal value between angle brackets.     *)
(***************************************************************************)
EXTENDS Integers, Sequences, FiniteSets, TLC

VARIABLES
    strIn,      \* SpecStr: the string handed to the derivations
    strOut,     \* SpecStr: the results computed so far, by name
    files,      \* the file system: path |-> content of every regular file
    cwd,        \* the working directory of the process
    prefResult, \* SpecPrefs: what the last call of the preference store returned
    saved,      \* SpecPrefs: path |-> the records of the last two saves that succeeded
    dirs,       \* the file system: the paths of the directories
    unreadable, \* the directories os.ReadDir fails on
    sep,        \* filepath.Separator of the platform
    templateFS, \* the embedded templates: path |-> body
    world,      \* the file system the run started with
    cmd,        \* the command of this run: "add" or "create"
    pc,         \* where the run is
    exitCode,   \* the exit code of the process, -1 while it runs
    locals,     \* the local variables of the command
    trace       \* the events of the run so far

strVars == <<strIn, strOut>>
prefVars == <<prefResult, saved>>
fsVars == <<files, cwd>>
envVars == <<unreadable, sep, templateFS, world, cmd>>
runVars == <<pc, exitCode, locals, trace>>
vars == <<strVars, fsVars, prefVars, dirs, envVars, runVars>>

-----------------------------------------------------------------------------
(* Bytes and UTF-8                                                          *)

bC3 == "<C3>"
b89 == "<89>"
bA9 == "<A9>"
bEF == "<EF>"
bBF == "<BF>"
bBD == "<BD>"
bFF == "<FF>"

\* The ASCII letters the model uses, upper case to lower case.
UpperToLower ==
    [A |-> "a", B |-> "b", C |-> "c", D |-> "d", E |-> "e", F |-> "f", G |-> "g", H |-> "h", I |-> "i", J |-> "j", K |-> "k", L |-> "l", M |-> "m", 
     N |-> "n", O |-> "o", P |-> "p", Q |-> "q", R |-> "r", S |-> "s", T |-> "t", U |-> "u", V |-> "v", W |-> "w", X |-> "x", Y |-> "y", Z |-> "z"]
AsciiUpper == DOMAIN UpperToLower
AsciiLower == {UpperToLower[b] : b \in AsciiUpper}

\* Bytes >= 0x80 (utf8.RuneSelf) of the model's alphabet.
HighBytes == {bC3, b89, bA9, bEF, bBF, bBD, bFF}
\* UTF-8 continuation bytes (0x80..0xBF).
ContBytes == {b89, bA9, bBF, bBD}

IsASCII(s) == \A i \in 1..Len(s) : s[i] \notin HighBytes

\* Width in bytes of the rune that starts at position i of s; an invalid or
\* truncated encoding is one byte wide and decodes to utf8.RuneError.
RuneWidth(s, i) ==
    IF s[i] = bC3 /\ i + 1 <= Len(s) /\ s[i + 1] \in ContBytes THEN 2
    ELSE IF s[i] = bEF /\ i + 2 <= Len(s) /\ s[i + 1] \in ContBytes
                 /\ s[i + 2] \in ContBytes THEN 3
    ELSE 1

ValidRuneAt(s, i) == s[i] \notin HighBytes \/ RuneWidth(s, i) > 1

\* The encoding of U+FFFD, the replacement character.
RuneErrorBytes == <<bEF, bBF, bBD>>

\* unicode.ToLower on one encoded rune: ASCII upper case, and U+00C9 (C3 89)
\* whose lower case is U+00E9 (C3 A9); every other rune of the alphabet is
\* its own lower case.
LowerRune(r) ==
    IF Len(r) = 1 /\ r[1] \in AsciiUpper THEN <<UpperToLower[r[1]]>>
    ELSE IF r = <<bC3, b89>> THEN <<bC3, bA9>>
    ELSE r

RECURSIVE MapLowerFrom(_, _)
\* strings.Map(unicode.ToLower, s) from byte i on: every rune is mapped, and
\* an invalid byte is written as U+FFFD.
MapLowerFrom(s, i) ==
    IF i > Len(s) THEN <<>>
    ELSE LET w == RuneWidth(s, i)
         IN  (IF ValidRuneAt(s, i) THEN LowerRune(SubSeq(s, i, i + w - 1))
              ELSE RuneErrorBytes) \o MapLowerFrom(s, i + w)

\* strings.ToLower: the ASCII fast path maps bytes, anything else goes
\* through strings.Map.
ToLower(s) ==
    IF IsASCII(s)
    THEN [i \in 1..Len(s) |->
            IF s[i] \in AsciiUpper THEN UpperToLower[s[i]] ELSE s[i]]
    ELSE MapLowerFrom(s, 1)

\* White space of the alphabet (unicode.IsSpace).
SpaceBytes == {" ", "\t"}

RECURSIVE TrimLeft(_)
TrimLeft(s) ==
    IF s # <<>> /\ Head(s) \in SpaceBytes THEN TrimLeft(Tail(s)) ELSE s

RECURSIVE TrimRight(_)
TrimRight(s) ==
    IF s # <<>> /\ s[Len(s)] \in SpaceBytes
    THEN TrimRight(SubSeq(s, 1, Len(s) - 1)) ELSE s

\* strings.TrimSpace
TrimSpace(s) == TrimRight(TrimLeft(s))

\* strings.ReplaceAll(s, old, new) for one-byte old and new.
ReplaceAll(s, old, new) ==
    [i \in 1..Len(s) |-> IF s[i] = old THEN new ELSE s[i]]

-----------------------------------------------------------------------------
(* String constants of the program                                          *)

StrCom == <<"c", "o", "m">>
StrCustomDeploy ==
    <<"c", "u", "s", "t", "o", "m", "d", "e", "p", "l", "o", "y", "_">>
StrCustomScript ==
    <<"c", "u", "s", "t", "o", "m", "s", "c", "r", "i", "p", "t", "_">>

-----------------------------------------------------------------------------
(* Derived identifiers                                                      *)

\* s[:n]
Prefix(s, n) == SubSeq(s, 1, n)

\* A slip that truncates without trimming first.
GetCompanyPrefix_NoTrim(companyName) ==
    LET prefix == ToLower(companyName)
    IN  IF Len(companyName) = 0 THEN StrCom
        ELSE IF Len(prefix) > 3 THEN Prefix(prefix, 3)
        ELSE prefix

GetCompanyPrefix(companyName) ==
    LET trimmed == TrimSpace(companyName)
        prefix == ToLower(trimmed)
    IN  IF Len(trimmed) = 0 THEN StrCom
        ELSE IF Len(prefix) > 3 THEN Prefix(prefix, 3)
        ELSE prefix

\* A slip that replaces the spaces and forgets to lower the case.
ScriptIdOf_NoLower(scriptName) == ReplaceAll(scriptName, " ", "_")

\* scriptId := strings.ReplaceAll(strings.ToLower(scriptName), " ", "_")
ScriptIdOf(scriptName) == ReplaceAll(ToLower(scriptName), " ", "_")

\* deploymentId := "customdeploy_" + scriptId
DeploymentIdOf(scriptName) == StrCustomDeploy \o ScriptIdOf(scriptName)

-----------------------------------------------------------------------------
(* Paths and files                                                          *)

\* A path is the sequence of its components (what filepath.Join and the
\* operating system make of it); a component is a byte string.
DotNetsuiteCli ==
    <<".", "n", "e", "t", "s", "u", "i", "t", "e", "-", "c", "l", "i">>

\* The directories of the environment: os.UserHomeDir() and the directory
\* the process is started in.
HomeDir == << <<"h", "o", "m", "e">> >>
WorkDir == << <<"w", "o", "r", "k">> >>

\* filepath.Join(dir, name) for a single component name
JoinName(dir, name) == Append(dir, name)

NoFiles == [p \in {} |-> <<>>]
NoResults == [n \in {} |-> <<>>]
NoResult == [op |-> "none"]

\* What a failed os.WriteFile leaves behind: nothing changed (the open
\* failed), or a file truncated by O_TRUNC with part of the data in it.
WriteOutcomes == {"ok", "open failed", "write failed"}

PartialFile == [kind |-> "partial"]

\* os.WriteFile(path, data, 0644)
WriteFile(fs, path, data, outcome) ==
    CASE outcome = "ok" -> [q \in DOMAIN fs \cup {path} |->
                              IF q = path THEN data ELSE fs[q]]
      [] outcome = "write failed" -> [q \in DOMAIN fs \cup {path} |->
                              IF q = path THEN PartialFile ELSE fs[q]]
      [] OTHER -> fs

-----------------------------------------------------------------------------
(* Byte order, numbers and paths                                            *)

\* The ASCII bytes of the model in ascending order.
AsciiOrder ==
    <<"\t", " ", "+", "-", ".", "/", "0", "1", "2", "3", "4", "5", "6",
      "7", "8", "9", "@", "A", "B", "C", "D", "E", "F", "G", "H", "I", "J",
      "K", "L", "M", "N", "O", "P", "Q", "R", "S", "T", "U", "V", "W", "X",
      "Y", "Z", "\\", "_", "a", "b", "c", "d", "e", "f", "g", "h", "i",
      "j", "k", "l", "m", "n", "o", "p", "q", "r", "s", "t", "u", "v", "w",
      "x", "y", "z">>

ByteRank(b) == CHOOSE i \in 1..Len(AsciiOrder) : AsciiOrder[i] = b

RECURSIVE LexLess(_, _)
\* s < t on Go strings (what os.ReadDir sorts file names by)
LexLess(s, t) ==
    IF t = <<>> THEN FALSE
    ELSE IF s = <<>> THEN TRUE
    ELSE IF Head(s) = Head(t) THEN LexLess(Tail(s), Tail(t))
    ELSE ByteRank(Head(s)) < ByteRank(Head(t))

RECURSIVE SortedSeq(_)
\* The elements of a set of strings in ascending order.
SortedSeq(S) ==
    IF S = {} THEN <<>>
    ELSE LET least == CHOOSE x \in S : \A y \in S \ {x} : LexLess(x, y)
         IN  <<least>> \o SortedSeq(S \ {least})

Digits == <<"0", "1", "2", "3", "4", "5", "6", "7", "8", "9">>
DigitBytes == {Digits[i] : i \in 1..Len(Digits)}
DigitVal(b) == (CHOOSE i \in 1..Len(Digits) : Digits[i] = b) - 1

RECURSIVE DecimalValue(_)
DecimalValue(s) ==
    IF s = <<>> THEN 0
    ELSE 10 * DecimalValue(SubSeq(s, 1, Len(s) - 1)) + DigitVal(s[Len(s)])

\* strconv.Atoi(s): an optional sign and at least one decimal digit
AtoiOk(s) ==
    LET body == IF s # <<>> /\ Head(s) \in {"+", "-"} THEN Tail(s) ELSE s
    IN  body # <<>> /\ \A i \in 1..Len(body) : body[i] \in DigitBytes

Atoi(s) ==
    IF Head(s) = "-" THEN 0 - DecimalValue(Tail(s))
    ELSE IF Head(s) = "+" THEN DecimalValue(Tail(s))
    ELSE DecimalValue(s)

\* strings.Count(s, sep) for a one-byte sep
Count(s, b) == Cardinality({i \in 1..Len(s) : s[i] = b})

RECURSIVE Repeat(_, _)
\* strings.Repeat(s, n)
Repeat(s, n) == IF n <= 0 THEN <<>> ELSE s \o Repeat(s, n - 1)

\* filepath.Clean as far as the program's paths need it: on Windows a
\* slash becomes the separator.
Clean(p) == ReplaceAll(p, "/", sep)

\* filepath.Join(a, b): empty elements are ignored, the result is cleaned.
Join(a, b) ==
    IF a = <<>> THEN Clean(b)
    ELSE IF b = <<>> THEN Clean(a)
    ELSE Clean(a \o <<sep>> \o b)

Join3(a, b, c) == Join(Join(a, b), c)

RECURSIVE SplitOn(_, _)
\* The non-empty pieces of p between occurrences of the byte b.
SplitOn(p, b) ==
    IF p = <<>> THEN <<>>
    ELSE IF Head(p) = b THEN SplitOn(Tail(p), b)
    ELSE LET stops == {i \in 1..Len(p) : p[i] = b}
             n == IF stops = {} THEN Len(p)
                  ELSE (CHOOSE i \in stops : \A j \in stops : i <= j) - 1
         IN  <<SubSeq(p, 1, n)>> \o SplitOn(SubSeq(p, n + 1, Len(p)), b)

\* filepath.IsAbs(p), with the root written as a leading separator
IsAbs(p) == p # <<>> /\ Clean(p)[1] = sep

\* The directory or file a path names: the operating system walks its
\* components from the root, for a relative path from the working directory.
Resolve(p) ==
    IF IsAbs(p) THEN SplitOn(Clean(p), sep) ELSE cwd \o SplitOn(Clean(p), sep)

\* os.Stat(path): err == nil && info.IsDir()
IsDir(p) == Resolve(p) \in dirs

\* os.Stat(path): err == nil
Exists(p) == Resolve(p) \in dirs \/ Resolve(p) \in DOMAIN files

\* All the leading parts of a path, the path itself included.
Ancestors(path) == {SubSeq(path, 1, n) : n \in 1..Len(path)}

\* os.MkdirAll(path, 0755): the directories afterwards
MkdirAll(ds, path, ok) == IF ok THEN ds \cup Ancestors(path) ELSE ds

-----------------------------------------------------------------------------
(* The script types and the template data of runAdd                         *)

\* scriptTypeConfigs, by name
ScriptTypes ==
    {<<"b", "u", "n", "d", "l", "e">>, <<"c", "l", "i", "e", "n", "t">>, <<"f", "o", "r", "m", "c", "l", "i", "e", "n", "t">>, <<"m", "a", "p", "r", "e", "d", "u", "c", "e">>,
     <<"m", "a", "s", "s", "u", "p", "d", "a", "t", "e">>, <<"p", "o", "r", "t", "l", "e", "t">>, <<"r", "e", "s", "t", "l", "e", "t">>, <<"s", "c", "h", "e", "d", "u", "l", "e", "d">>,
     <<"s", "u", "i", "t", "e", "l", "e", "t">>, <<"u", "s", "e", "r", "e", "v", "e", "n", "t">>, <<"w", "o", "r", "k", "f", "l", "o", "w", "a", "c", "t", "i", "o", "n">>, <<"c", "o", "m", "m", "o", "n">>}

recordTypeMap ==
    (<<"c", "l", "i", "e", "n", "t">> :> <<"c", "l", "i", "e", "n", "t", "s", "c", "r", "i", "p", "t">>)
    @@ (<<"m", "a", "p", "r", "e", "d", "u", "c", "e">> :> <<"m", "a", "p", "r", "e", "d", "u", "c", "e", "s", "c", "r", "i", "p", "t">>)
    @@ (<<"m", "a", "s", "s", "u", "p", "d", "a", "t", "e">> :> <<"m", "a", "s", "s", "u", "p", "d", "a", "t", "e", "s", "c", "r", "i", "p", "t">>)
    @@ (<<"p", "o", "r", "t", "l", "e", "t">> :> <<"p", "o", "r", "t", "l", "e", "t">>)
    @@ (<<"r", "e", "s", "t", "l", "e", "t">> :> <<"r", "e", "s", "t", "l", "e", "t">>)
    @@ (<<"s", "c", "h", "e", "d", "u", "l", "e", "d">> :> <<"s", "c", "h", "e", "d", "u", "l", "e", "d", "s", "c", "r", "i", "p", "t">>)
    @@ (<<"s", "u", "i", "t", "e", "l", "e", "t">> :> <<"s", "u", "i", "t", "e", "l", "e", "t">>)
    @@ (<<"u", "s", "e", "r", "e", "v", "e", "n", "t">> :> <<"u", "s", "e", "r", "e", "v", "e", "n", "t", "s", "c", "r", "i", "p", "t">>)
    @@ (<<"w", "o", "r", "k", "f", "l", "o", "w", "a", "c", "t", "i", "o", "n">> :> <<"w", "o", "r", "k", "f", "l", "o", "w", "a", "c", "t", "i", "o", "n", "s", "c", "r", "i", "p", "t">>)

getRecordType(scriptType) ==
    IF scriptType \in DOMAIN recordTypeMap THEN recordTypeMap[scriptType]
    ELSE <<>>

\* A slip that asks for the record type of userevent scripts alone.
NeedsRecordType_UserEventOnly(scriptType) == scriptType = <<"u", "s", "e", "r", "e", "v", "e", "n", "t">>

\* The script types that are asked for a record type.
NeedsRecordType(scriptType) ==
    scriptType = <<"u", "s", "e", "r", "e", "v", "e", "n", "t">> \/ scriptType = <<"w", "o", "r", "k", "f", "l", "o", "w", "a", "c", "t", "i", "o", "n">>

RECURSIVE RunesFrom(_, _)
\* []rune(s) from byte i on, each rune in its UTF-8 encoding; an invalid byte
\* is the rune U+FFFD.
RunesFrom(s, i) ==
    IF i > Len(s) THEN <<>>
    ELSE LET w == RuneWidth(s, i)
         IN  <<IF ValidRuneAt(s, i) THEN SubSeq(s, i, i + w - 1)
               ELSE RuneErrorBytes>> \o RunesFrom(s, i + w)

\* unicode.IsUpper, unicode.IsLower and unicode.IsDigit on the model's runes
IsUpperRune(r) == (Len(r) = 1 /\ r[1] \in AsciiUpper) \/ r = <<bC3, b89>>
IsLowerRune(r) ==
    \/ Len(r) = 1 /\ r[1] \in AsciiLower
    \/ r \in {<<bC3, bA9>>, <<bC3, bBF>>, <<bC3, bBD>>}
IsDigitRune(r) == Len(r) = 1 /\ r[1] \in DigitBytes

RECURSIVE SnakeFrom(_, _, _, _)
\* The loop of toSnakeCase from rune i on.
SnakeFrom(runes, i, result, prevLower) ==
    IF i > Len(runes) THEN result
    ELSE LET r == runes[i]
         IN  IF IsUpperRune(r)
             THEN SnakeFrom(runes, i + 1,
                            result \o (IF i > 1 /\ prevLower THEN <<"_">> ELSE <<>>)
                                   \o LowerRune(r),
                            FALSE)
             ELSE IF IsLowerRune(r) \/ IsDigitRune(r)
             THEN SnakeFrom(runes, i + 1, result \o r, TRUE)
             ELSE SnakeFrom(runes, i + 1,
                            result \o (IF i > 1 /\ result # <<>>
                                          /\ result[Len(result)] # "_"
                                       THEN <<"_">> ELSE <<>>),
                            FALSE)

RECURSIVE CollapseUnderscores(_)
\* regexp `_+` replaced by "_"
CollapseUnderscores(s) ==
    IF Len(s) < 2 THEN s
    ELSE IF s[1] = "_" /\ s[2] = "_" THEN CollapseUnderscores(Tail(s))
    ELSE <<s[1]>> \o CollapseUnderscores(Tail(s))

RECURSIVE TrimUnderscores(_)
\* strings.Trim(s, "_")
TrimUnderscores(s) ==
    IF s # <<>> /\ Head(s) = "_" THEN TrimUnderscores(Tail(s))
    ELSE IF s # <<>> /\ s[Len(s)] = "_"
    THEN TrimUnderscores(SubSeq(s, 1, Len(s) - 1))
    ELSE s

toSnakeCase(s) ==
    IF s = <<>> THEN <<>>
    ELSE ToLower(TrimUnderscores(CollapseUnderscores(
             SnakeFrom(RunesFrom(s, 1), 1, <<>>, FALSE))))

\* templates/<scriptType>.ts.tmpl and templates/<scriptType>.xml.tmpl
TsTemplatePath(scriptType) == <<"t", "e", "m", "p", "l", "a", "t", "e", "s", "/">> \o scriptType \o <<".", "t", "s", ".", "t", "m", "p", "l">>
XmlTemplatePath(scriptType) == <<"t", "e", "m", "p", "l", "a", "t", "e", "s", "/">> \o scriptType \o <<".", "x", "m", "l", ".", "t", "m", "p", "l">>

\* templateFS.ReadFile(path): whether it fails, and the body it returns
ReadFails(path) == path \notin DOMAIN templateFS
TemplateBody(path) == IF ReadFails(path) THEN <<>> ELSE templateFS[path]

\* GetTemplates(scriptType): a template that cannot be read is a warning and
\* an empty body.
GetTemplates(scriptType) ==
    [TypeScript |-> TemplateBody(TsTemplatePath(scriptType)),
     XML |-> TemplateBody(XmlTemplatePath(scriptType))]

\* time.Now().Format("2006-01-02"), the day of the run
Today == <<"2", "0", "2", "6", "-", "0", "1", "-", "0", "2">>

\* prefixedFileName and tsFileNameWithType
PrefixedFileName(companyName, scriptName) ==
    GetCompanyPrefix(companyName) \o <<"_">> \o scriptName

\* A slip that names the file after the script id.
TsFileNameWithType_ScriptId(companyName, scriptName, scriptType) ==
    PrefixedFileName(companyName, ScriptIdOf(scriptName)) \o <<"_">> \o scriptType


TsFileNameWithType(companyName, scriptName, scriptType) ==
    PrefixedFileName(companyName, scriptName) \o <<"_">> \o scriptType

\* The TemplateData literal of runAdd.
InitialData(config, scriptType, scriptName, description, recordType) ==
    [Project |-> config.ProjectName,
     ProjectName |-> config.ProjectName,
     Description |-> description,
     Date |-> Today,
     CompanyName |-> config.CompanyName,
     UserName |-> config.UserName,
     UserEmail |-> config.UserEmail,
     ScriptName |-> scriptName,
     ScriptId |-> StrCustomScript \o ScriptIdOf(scriptName),
     ScriptPath |-> <<"S", "u", "i", "t", "e", "S", "c", "r", "i", "p", "t", "s", "/">> \o config.ProjectName \o <<"/">>
                      \o TsFileNameWithType(config.CompanyName, scriptName, scriptType)
                      \o <<".", "t", "s">>,
     DeploymentId |-> DeploymentIdOf(scriptName),
     RecordType |-> recordType]

\* A slip that leaves the selected folder out of the path.
FinalScriptPath_NoFolder(scriptPathPrefix, selectedFolder, tsFileNameWithType) ==
    scriptPathPrefix \o tsFileNameWithType \o <<".", "t", "s">>

\* data.ScriptPath as set after the folder has been selected
FinalScriptPath(scriptPathPrefix, selectedFolder, tsFileNameWithType) ==
    IF selectedFolder # <<>>
    THEN scriptPathPrefix \o selectedFolder \o <<"/">> \o tsFileNameWithType \o <<".", "t", "s">>
    ELSE scriptPathPrefix \o tsFileNameWithType \o <<".", "t", "s">>

\* tmpl.Execute(&buf, data): the text of a template body filled with data;
\* the empty body gives the empty text.
Render(tmplStr, data) ==
    IF tmplStr = <<>> THEN [kind |-> "text", tmpl |-> <<>>]
    ELSE [kind |-> "text", tmpl |-> tmplStr, data |-> data]

\* What renderAndWrite can do: succeed, or fail in template.Parse, in
\* tmpl.Execute or in os.WriteFile.
RenderOutcomes(tmplStr) ==
    WriteOutcomes \cup (IF tmplStr = <<>> THEN {} ELSE {"parse failed", "execute failed"})

\* renderAndWrite(path, tmplStr, data): the files afterwards
renderAndWrite(fs, path, tmplStr, data, outcome) ==
    IF outcome \in WriteOutcomes
    THEN WriteFile(fs, Resolve(path), Render(tmplStr, data), outcome)
    ELSE fs

-----------------------------------------------------------------------------
(* Locating the destination roots                                           *)

SuiteScriptsPaths ==
    <<<<"s", "r", "c", "/", "F", "i", "l", "e", "C", "a", "b", "i", "n", "e", "t", "/", "S", "u", "i", "t", "e", "S", "c", "r", "i", "p", "t", "s">>, <<"s", "r", "c", "/", "S", "u", "i", "t", "e", "S", "c", "r", "i", "p", "t", "s">>, <<"S", "u", "i", "t", "e", "S", "c", "r", "i", "p", "t", "s">>>>

ObjectsPaths == <<<<"s", "r", "c", "/", "O", "b", "j", "e", "c", "t", "s">>, <<"O", "b", "j", "e", "c", "t", "s">>>>

\* The first path of the list that is a directory, or the empty string.
FirstDir(paths) ==
    IF \E i \in 1..Len(paths) : IsDir(paths[i])
    THEN paths[CHOOSE i \in 1..Len(paths) :
                  IsDir(paths[i]) /\ \A j \in 1..(i - 1) : ~IsDir(paths[j])]
    ELSE <<>>

\* findSuiteScriptsDir: the directory it returns, and whether it has to
\* create it
SuiteScriptsBasePath ==
    IF Exists(<<"s", "r", "c", "/", "F", "i", "l", "e", "C", "a", "b", "i", "n", "e", "t">>) THEN <<"s", "r", "c", "/", "F", "i", "l", "e", "C", "a", "b", "i", "n", "e", "t", "/", "S", "u", "i", "t", "e", "S", "c", "r", "i", "p", "t", "s">>
    ELSE IF Exists(<<"s", "r", "c">>) THEN <<"s", "r", "c", "/", "S", "u", "i", "t", "e", "S", "c", "r", "i", "p", "t", "s">>
    ELSE <<"S", "u", "i", "t", "e", "S", "c", "r", "i", "p", "t", "s">>

findSuiteScriptsDir ==
    IF FirstDir(SuiteScriptsPaths) # <<>>
    THEN [path |-> FirstDir(SuiteScriptsPaths), create |-> FALSE]
    ELSE [path |-> SuiteScriptsBasePath, create |-> TRUE]

\* findObjectsDir: the directory it returns, and whether it has to create it
ObjectsBasePath ==
    IF Exists(<<"s", "r", "c">>) THEN <<"s", "r", "c", "/", "O", "b", "j", "e", "c", "t", "s">> ELSE <<"O", "b", "j", "e", "c", "t", "s">>

findObjectsDir ==
    IF FirstDir(ObjectsPaths) # <<>>
    THEN [path |-> FirstDir(ObjectsPaths), create |-> FALSE]
    ELSE [path |-> ObjectsBasePath, create |-> TRUE]

-----------------------------------------------------------------------------
(* The folder catalog                                                       *)

\* os.ReadDir(fullPath): the names in the directory, sorted by name
ReadDir(full) ==
    SortedSeq({p[Len(p)] : p \in {q \in dirs \cup DOMAIN files :
                   Len(q) = Len(full) + 1 /\ SubSeq(q, 1, Len(full)) = full}})

\* The FolderOption of one directory entry.
FolderOption(fullPath, entryRelativePath, name) ==
    LET netSuitePath == ReplaceAll(entryRelativePath, sep, "/")
        depth == Count(entryRelativePath, sep)
        indent == Repeat(<<" ", " ">>, depth)
    IN  [Path |-> netSuitePath,
         Display |-> indent \o name
                       \o (IF depth > 0 THEN <<" ", "(">> \o netSuitePath \o <<")">>
                           ELSE <<>>),
         FullPath |-> Join(fullPath, name)]

RECURSIVE findAllFolders(_, _)
RECURSIVE FoldersOfEntries(_, _, _, _)

\* The loop of findAllFolders over the entries from the i-th on.
FoldersOfEntries(baseDir, relativePath, entries, i) ==
    IF i > Len(entries) THEN <<>>
    ELSE LET fullPath == IF relativePath # <<>> THEN Join(baseDir, relativePath)
                         ELSE baseDir
             name == entries[i]
             entryRelativePath == IF relativePath # <<>> THEN Join(relativePath, name)
                                  ELSE name
         IN  (IF Append(Resolve(fullPath), name) \in dirs
              THEN <<FolderOption(fullPath, entryRelativePath, name)>>
                      \o findAllFolders(baseDir, entryRelativePath)
              ELSE <<>>)
             \o FoldersOfEntries(baseDir, relativePath, entries, i + 1)

\* A slip that lists what is below a directory that cannot be read.
findAllFolders_ReadsAll(baseDir, relativePath) ==
    LET fullPath == IF relativePath # <<>> THEN Join(baseDir, relativePath)
                    ELSE baseDir
    IN  IF Resolve(fullPath) \notin dirs
        THEN <<>>
        ELSE FoldersOfEntries(baseDir, relativePath, ReadDir(Resolve(fullPath)), 1)

\* findAllFolders(baseDir, relativePath): a directory that cannot be read
\* gives no folders.
findAllFolders(baseDir, relativePath) ==
    LET fullPath == IF relativePath # <<>> THEN Join(baseDir, relativePath)
                    ELSE baseDir
    IN  IF Resolve(fullPath) \notin dirs \/ Resolve(fullPath) \in unreadable
        THEN <<>>
        ELSE FoldersOfEntries(baseDir, relativePath, ReadDir(Resolve(fullPath)), 1)

-----------------------------------------------------------------------------
(* The interactive selector                                                 *)

pageSize == 20

scriptPathPrefix == <<"S", "u", "i", "t", "e", "S", "c", "r", "i", "p", "t", "s", "/">>

\* A slip that rounds the number of pages down.
totalPages_Floor(folders) == Len(folders) \div pageSize

totalPages(folders) == (Len(folders) + pageSize - 1) \div pageSize

\* The entries shown on a page: indices start+1 .. end of the catalog.
PageStart(currentPage) == currentPage * pageSize
\* A slip that leaves out the cut at the end of the catalog.
PageEnd_Unclamped(folders, currentPage) == PageStart(currentPage) + pageSize

PageEnd(folders, currentPage) ==
    IF PageStart(currentPage) + pageSize > Len(folders) THEN Len(folders)
    ELSE PageStart(currentPage) + pageSize

\* A slip that accepts only the numbers of the page displayed.
MenuRound_PageOnly(folders, currentPage, line) ==
    LET input == TrimSpace(ToLower(line))
    IN  IF totalPages(folders) > 1 /\ input = <<"n">>
           /\ currentPage < totalPages(folders) - 1
        THEN [kind |-> "page", page |-> currentPage + 1]
        ELSE IF totalPages(folders) > 1 /\ input = <<"p">> /\ currentPage > 0
        THEN [kind |-> "page", page |-> currentPage - 1]
        ELSE IF ~AtoiOk(input)
        THEN [kind |-> "invalid", page |-> currentPage]
        ELSE IF Atoi(input) = 0
        THEN [kind |-> "selected", path |-> <<>>, index |-> 0]
        ELSE IF Atoi(input) < PageStart(currentPage) + 1
                \/ Atoi(input) > PageEnd(folders, currentPage)
        THEN [kind |-> "invalid", page |-> currentPage]
        ELSE [kind |-> "selected", path |-> folders[Atoi(input)].Path,
              index |-> Atoi(input)]

\* A slip that goes from the last page to the first on n.
MenuRound_Wraps(folders, currentPage, line) ==
    LET input == TrimSpace(ToLower(line))
    IN  IF totalPages(folders) > 1 /\ input = <<"n">>
        THEN [kind |-> "page", page |-> (currentPage + 1) % totalPages(folders)]
        ELSE IF totalPages(folders) > 1 /\ input = <<"p">> /\ currentPage > 0
        THEN [kind |-> "page", page |-> currentPage - 1]
        ELSE IF ~AtoiOk(input)
        THEN [kind |-> "invalid", page |-> currentPage]
        ELSE IF Atoi(input) = 0
        THEN [kind |-> "selected", path |-> <<>>, index |-> 0]
        ELSE IF Atoi(input) < 1 \/ Atoi(input) > Len(folders)
        THEN [kind |-> "invalid", page |-> currentPage]
        ELSE [kind |-> "selected", path |-> folders[Atoi(input)].Path,
              index |-> Atoi(input)]

\* A slip that takes a number past the end for the last entry.
MenuRound_Clamps(folders, currentPage, line) ==
    LET input == TrimSpace(ToLower(line))
    IN  IF totalPages(folders) > 1 /\ input = <<"n">>
           /\ currentPage < totalPages(folders) - 1
        THEN [kind |-> "page", page |-> currentPage + 1]
        ELSE IF totalPages(folders) > 1 /\ input = <<"p">> /\ currentPage > 0
        THEN [kind |-> "page", page |-> currentPage - 1]
        ELSE IF ~AtoiOk(input)
        THEN [kind |-> "invalid", page |-> currentPage]
        ELSE IF Atoi(input) = 0
        THEN [kind |-> "selected", path |-> <<>>, index |-> 0]
        ELSE IF Atoi(input) < 1
        THEN [kind |-> "invalid", page |-> currentPage]
        ELSE LET i == IF Atoi(input) > Len(folders) THEN Len(folders)
                      ELSE Atoi(input)
             IN  [kind |-> "selected", path |-> folders[i].Path, index |-> i]

\* One round of the loop of displayScrollableMenu on a line of input: the
\* page to show next, or the folder selected.
MenuRound(folders, currentPage, line) ==
    LET input == TrimSpace(ToLower(line))
    IN  IF totalPages(folders) > 1 /\ input = <<"n">>
           /\ currentPage < totalPages(folders) - 1
        THEN [kind |-> "page", page |-> currentPage + 1]
        ELSE IF totalPages(folders) > 1 /\ input = <<"p">> /\ currentPage > 0
        THEN [kind |-> "page", page |-> currentPage - 1]
        ELSE IF ~AtoiOk(input)
        THEN [kind |-> "invalid", page |-> currentPage]
        ELSE IF Atoi(input) = 0
        THEN [kind |-> "selected", path |-> <<>>, index |-> 0]
        ELSE IF Atoi(input) < 1 \/ Atoi(input) > Len(folders)
        THEN [kind |-> "invalid", page |-> currentPage]
        ELSE [kind |-> "selected", path |-> folders[Atoi(input)].Path,
              index |-> Atoi(input)]

\* A slip that compares the answer without lowering its case.
AnswersYes_CaseSensitive(line) ==
    TrimSpace(line) = <<"y">> \/ TrimSpace(line) = <<"y", "e", "s">>

\* The answer to the question asked when there is no folder.
AnswersYes(line) ==
    LET response == TrimSpace(ToLower(line))
    IN  response = <<"y">> \/ response = <<"y", "e", "s">>

-----------------------------------------------------------------------------
(* The preference store                                                     *)

\* The two structs.
ProjectConfig(n, c, u, e) ==
    [ProjectName |-> n, CompanyName |-> c, UserName |-> u, UserEmail |-> e]
UserConfig(c, u, e) == [CompanyName |-> c, UserName |-> u, UserEmail |-> e]

\* The json tags of the two structs.
ProjectConfigTags ==
    [ProjectName |-> "projectName", CompanyName |-> "companyName",
     UserName |-> "userName", UserEmail |-> "userEmail"]
UserConfigTags ==
    [CompanyName |-> "companyName", UserName |-> "userName",
     UserEmail |-> "userEmail"]

RECURSIVE CoerceFrom(_, _)
\* encoding/json writes a string coerced to valid UTF-8: every invalid byte
\* becomes U+FFFD.
CoerceFrom(s, i) ==
    IF i > Len(s) THEN <<>>
    ELSE LET w == RuneWidth(s, i)
         IN  (IF ValidRuneAt(s, i) THEN SubSeq(s, i, i + w - 1)
              ELSE RuneErrorBytes) \o CoerceFrom(s, i + w)

CoerceUTF8(s) == CoerceFrom(s, 1)

\* json.MarshalIndent(config, "", "  "): the JSON object with one member per
\* struct field, named by the field's tag.
MarshalIndent(config, tags) ==
    [kind |-> "json",
     members |-> {<<tags[f], CoerceUTF8(config[f])>> : f \in DOMAIN tags}]

\* json.Unmarshal(data, &config) on a JSON object: a field takes the member
\* named by its tag and keeps its zero value when there is none; members no
\* field names are skipped.
Unmarshal(data, tags) ==
    [f \in DOMAIN tags |->
        IF \E m \in data.members : m[1] = tags[f]
        THEN (CHOOSE m \in data.members : m[1] = tags[f])[2]
        ELSE <<>>]

\* What reading an existing file can do: os.ReadFile succeeds or fails.
ReadOutcomes == {"ok", "read failed"}

\* The body shared by LoadConfig and LoadUserConfig once the path is known.
LoadFrom(fs, configPath, tags, outcome, absent) ==
    IF configPath \notin DOMAIN fs THEN absent
    ELSE IF outcome # "ok" THEN [err |-> "error reading config file"]
    ELSE IF fs[configPath].kind # "json"
         THEN [err |-> "error parsing config file"]
    ELSE [err |-> "nil", config |-> Unmarshal(fs[configPath], tags)]

\* LoadConfig() in the working directory dir
LoadConfig(fs, dir, outcome) ==
    LoadFrom(fs, JoinName(dir, DotNetsuiteCli), ProjectConfigTags, outcome,
             [err |-> ".netsuite-cli file not found"])

\* A slip that takes the absent file for an error, as LoadConfig does.
LoadUserConfig_AbsentIsError(fs, outcome) ==
    LoadFrom(fs, JoinName(HomeDir, DotNetsuiteCli), UserConfigTags, outcome,
             [err |-> ".netsuite-cli file not found"])

\* LoadUserConfig(): an absent file is (nil, nil)
LoadUserConfig(fs, outcome) ==
    LoadFrom(fs, JoinName(HomeDir, DotNetsuiteCli), UserConfigTags, outcome,
             [err |-> "nil", config |-> "nil"])

\* A save that merges: a field the new record leaves empty keeps the value
\* the file had.
MergedWith(fs, path, config, tags) ==
    IF path \in DOMAIN fs /\ fs[path].kind = "json"
    THEN [f \in DOMAIN config |->
            IF config[f] = <<>> THEN Unmarshal(fs[path], tags)[f] ELSE config[f]]
    ELSE config

SaveConfig_Merging(fs, dir, config, outcome) ==
    WriteFile(fs, JoinName(dir, DotNetsuiteCli),
              MarshalIndent(MergedWith(fs, JoinName(dir, DotNetsuiteCli), config,
                                       ProjectConfigTags),
                            ProjectConfigTags), outcome)

\* SaveConfig(dir, config): the file system it leaves
SaveConfig(fs, dir, config, outcome) ==
    WriteFile(fs, JoinName(dir, DotNetsuiteCli),
              MarshalIndent(config, ProjectConfigTags), outcome)

\* SaveUserConfig(config): the file system it leaves
SaveUserConfig(fs, config, outcome) ==
    WriteFile(fs, JoinName(HomeDir, DotNetsuiteCli),
              MarshalIndent(config, UserConfigTags), outcome)

\* The error a save returns.
SaveErr(outcome) ==
    IF outcome = "ok" THEN "nil" ELSE "error writing config file"

-----------------------------------------------------------------------------
(* The process: one run of a command                                        *)

\* An event of the run: a prompt, a call that touches the file system, a
\* check.  ok says whether it succeeded.
Ev(ev, what, ok) == [ev |-> ev, what |-> what, ok |-> ok]

\* os.Exit(code), or the return from the command (code 0)
Exit(code) == pc' = "exited" /\ exitCode' = code

\* bufio.Reader.ReadString('\n') failed (end of input)
EOF == <<"<EOF>">>

-----------------------------------------------------------------------------
(* runAdd                                                                   *)

NoConfig == ProjectConfig(<<>>, <<>>, <<>>, <<>>)

AddLocals(scriptType, args) ==
    [scriptType |-> scriptType,
     args |-> args,
     config |-> NoConfig,
     scriptName |-> <<>>,
     description |-> <<>>,
     recordType |-> <<>>,
     data |-> InitialData(NoConfig, scriptType, <<>>, <<>>, <<>>),
     templates |-> [TypeScript |-> <<>>, XML |-> <<>>],
     suiteScriptsDir |-> <<>>,
     folders |-> <<>>,
     currentPage |-> 0,
     selection |-> 0,
     selectedFolder |-> <<>>,
     response |-> <<>>,
     targetDir |-> <<>>,
     tsPath |-> <<>>,
     objectsDir |-> <<>>,
     xmlPath |-> <<>>]

\* Lines typed at the prompts of runAdd.
NameLines == {<<>>, <<" ", "x", "\t">>}
DescriptionLines == {<<>>, <<" ", "d", " ">>}
RecordTypeLines == {<<" ">>, <<"C", "U", "S", "T", "O", "M", "E", "R">>}
RootLines == {<<"y">>, <<" ", "Y", "E", "S", " ">>, <<"n">>, <<>>}
MenuLines ==
    {<<"0">>, <<"1">>, <<"2">>, <<"3">>, <<"4">>, <<"2", "0">>, <<"2", "1">>, <<"2", "2">>,
     <<"n">>, <<"p">>, <<" ", "N", " ">>, <<"P">>, <<"x">>, <<>>, <<"+", "2">>, <<"-", "1">>}

\* config, err := LoadConfig()
AddLoadConfig ==
    /\ cmd = "add" /\ pc = "LoadConfig"
    /\ \E outcome \in ReadOutcomes :
        LET r == LoadConfig(files, cwd, outcome)
        IN  /\ trace' = Append(trace, Ev("LoadConfig", r.err, r.err = "nil"))
            /\ IF r.err # "nil"
               THEN Exit(1) /\ UNCHANGED locals
               ELSE /\ locals' = [locals EXCEPT !.config = r.config]
                    /\ pc' = "scriptName"
                    /\ UNCHANGED exitCode
    /\ UNCHANGED <<fsVars, dirs, envVars, strVars, prefVars>>

\* scriptName from the argument
AddScriptNameArg ==
    /\ cmd = "add" /\ pc = "scriptName"
    /\ Len(locals.args) > 0 /\ locals.args[1] # <<>>
    /\ locals' = [locals EXCEPT !.scriptName = locals.args[1]]
    /\ pc' = "description"
    /\ UNCHANGED <<exitCode, trace, fsVars, dirs, envVars, strVars, prefVars>>

\* scriptName from the prompt, with the default derived from the project name
AddScriptNamePrompt ==
    /\ cmd = "add" /\ pc = "scriptName"
    /\ ~(Len(locals.args) > 0 /\ locals.args[1] # <<>>)
    /\ \E line \in NameLines \cup {EOF} :
        LET defaultScriptName == toSnakeCase(locals.config.ProjectName)
            scriptName == IF TrimSpace(line) = <<>> THEN defaultScriptName
                          ELSE TrimSpace(line)
        IN  IF line = EOF
            THEN /\ trace' = Append(trace, Ev("prompt", "script name", FALSE))
                 /\ Exit(1) /\ UNCHANGED locals
            ELSE IF scriptName = <<>>
            THEN /\ trace' = trace \o <<Ev("prompt", "script name", TRUE),
                                        Ev("validate", "script name", FALSE)>>
                 /\ Exit(1) /\ UNCHANGED locals
            ELSE /\ trace' = Append(trace, Ev("prompt", "script name", TRUE))
                 /\ locals' = [locals EXCEPT !.scriptName = scriptName]
                 /\ pc' = "description"
                 /\ UNCHANGED exitCode
    /\ UNCHANGED <<fsVars, dirs, envVars, strVars, prefVars>>

\* the description, with its default
AddDescription ==
    /\ cmd = "add" /\ pc = "description"
    /\ \E line \in DescriptionLines \cup {EOF} :
        LET defaultDescription == locals.scriptName \o <<" ", "d", "e", "s", "c", "r", "i", "p", "t", "i", "o", "n">>
            description == IF TrimSpace(line) = <<>> THEN defaultDescription
                           ELSE TrimSpace(line)
        IN  IF line = EOF
            THEN /\ trace' = Append(trace, Ev("prompt", "description", FALSE))
                 /\ Exit(1) /\ UNCHANGED locals
            ELSE /\ trace' = Append(trace, Ev("prompt", "description", TRUE))
                 /\ locals' = [locals EXCEPT !.description = description]
                 /\ pc' = IF NeedsRecordType(locals.scriptType) THEN "recordType"
                          ELSE "templates"
                 /\ UNCHANGED exitCode
    /\ UNCHANGED <<fsVars, dirs, envVars, strVars, prefVars>>

\* the record type of a userevent or workflowaction script
AddRecordType ==
    /\ cmd = "add" /\ pc = "recordType"
    /\ \E line \in RecordTypeLines \cup {EOF} :
        IF line = EOF
        THEN /\ trace' = Append(trace, Ev("prompt", "record type", FALSE))
             /\ Exit(1) /\ UNCHANGED locals
        ELSE IF TrimSpace(line) = <<>>
        THEN /\ trace' = trace \o <<Ev("prompt", "record type", TRUE),
                                    Ev("validate", "record type", FALSE)>>
             /\ Exit(1) /\ UNCHANGED locals
        ELSE /\ trace' = Append(trace, Ev("prompt", "record type", TRUE))
             /\ locals' = [locals EXCEPT !.recordType = TrimSpace(line)]
             /\ pc' = "templates"
             /\ UNCHANGED exitCode
    /\ UNCHANGED <<fsVars, dirs, envVars, strVars, prefVars>>

\* The events of GetTemplates: one per template read.
TemplateReads(scriptType) ==
    <<Ev("template read", TsTemplatePath(scriptType),
         ~ReadFails(TsTemplatePath(scriptType))),
      Ev("template read", XmlTemplatePath(scriptType),
         ~ReadFails(XmlTemplatePath(scriptType)))>>

\* the identifiers, the template data and templates := GetTemplates(scriptType)
AddGetTemplates ==
    /\ cmd = "add" /\ pc = "templates"
    /\ locals' = [locals EXCEPT
                    !.data = InitialData(locals.config, locals.scriptType,
                                         locals.scriptName, locals.description,
                                         locals.recordType),
                    !.templates = GetTemplates(locals.scriptType)]
    /\ trace' = trace \o TemplateReads(locals.scriptType)
    /\ pc' = "findSuiteScriptsDir"
    /\ UNCHANGED <<exitCode, fsVars, dirs, envVars, strVars, prefVars>>

\* Whether os.MkdirAll(path) may succeed, may fail: a directory that exists
\* is left alone and is no error.
MkdirOutcomes(path) == IF Resolve(path) \in dirs THEN {TRUE} ELSE BOOLEAN

\* suiteScriptsDir, err := findSuiteScriptsDir()
AddFindSuiteScriptsDir ==
    /\ cmd = "add" /\ pc = "findSuiteScriptsDir"
    /\ LET r == findSuiteScriptsDir
       IN  IF ~r.create
           THEN /\ locals' = [locals EXCEPT !.suiteScriptsDir = r.path]
                /\ pc' = "selectFolder"
                /\ UNCHANGED <<dirs, trace, exitCode>>
           ELSE \E ok \in MkdirOutcomes(r.path) :
                /\ dirs' = MkdirAll(dirs, Resolve(r.path), ok)
                /\ trace' = Append(trace, Ev("mkdir", Resolve(r.path), ok))
                /\ IF ok
                   THEN /\ locals' = [locals EXCEPT !.suiteScriptsDir = r.path]
                        /\ pc' = "selectFolder"
                        /\ UNCHANGED exitCode
                   ELSE Exit(1) /\ UNCHANGED locals
    /\ UNCHANGED <<fsVars, envVars, strVars, prefVars>>

\* selectScriptFolder: folders := findAllFolders(suiteScriptsDir, "")
AddFindAllFolders ==
    /\ cmd = "add" /\ pc = "selectFolder"
    /\ LET folders == findAllFolders(locals.suiteScriptsDir, <<>>)
       IN  /\ locals' = [locals EXCEPT !.folders = folders, !.currentPage = 0]
           /\ pc' = IF Len(folders) = 0 THEN "rootQuestion" ELSE "menu"
    /\ UNCHANGED <<exitCode, trace, fsVars, dirs, envVars, strVars, prefVars>>

\* selectScriptFolder without folders: "Place script in SuiteScripts root?"
AddRootQuestion ==
    /\ cmd = "add" /\ pc = "rootQuestion"
    /\ \E line \in RootLines \cup {EOF} :
        IF line = EOF
        THEN /\ trace' = Append(trace, Ev("prompt", "root question", FALSE))
             /\ Exit(1) /\ UNCHANGED locals
        ELSE IF ~AnswersYes(line)
        THEN /\ trace' = trace \o <<Ev("prompt", "root question", TRUE),
                                    Ev("cancelled", "root question", TRUE)>>
             /\ locals' = [locals EXCEPT !.response = line]
             /\ Exit(0)
        ELSE /\ trace' = Append(trace, Ev("prompt", "root question", TRUE))
             /\ locals' = [locals EXCEPT !.response = line,
                                         !.selectedFolder = <<>>, !.selection = 0]
             /\ pc' = "mkTarget"
             /\ UNCHANGED exitCode
    /\ UNCHANGED <<fsVars, dirs, envVars, strVars, prefVars>>

\* displayScrollableMenu: one round of its loop
AddMenuInput ==
    /\ cmd = "add" /\ pc = "menu"
    /\ \E line \in MenuLines \cup {EOF} :
        IF line = EOF
        THEN /\ trace' = Append(trace, Ev("prompt", "menu", FALSE))
             /\ Exit(1) /\ UNCHANGED locals
        ELSE LET r == MenuRound(locals.folders, locals.currentPage, line)
             IN  /\ UNCHANGED <<exitCode, trace>>
                 /\ IF r.kind = "selected"
                    THEN /\ locals' = [locals EXCEPT !.selectedFolder = r.path,
                                                     !.selection = r.index]
                         /\ pc' = "mkTarget"
                    ELSE /\ locals' = [locals EXCEPT !.currentPage = r.page]
                         /\ pc' = "menu"
    /\ UNCHANGED <<fsVars, dirs, envVars, strVars, prefVars>>

\* targetDir and os.MkdirAll(targetDir, 0755)
AddMkTarget ==
    /\ cmd = "add" /\ pc = "mkTarget"
    /\ LET osPath == ReplaceAll(locals.selectedFolder, "/", sep)
           targetDir == Join(locals.suiteScriptsDir, osPath)
       IN  \E ok \in MkdirOutcomes(targetDir) :
            /\ dirs' = MkdirAll(dirs, Resolve(targetDir), ok)
            /\ trace' = Append(trace, Ev("mkdir", Resolve(targetDir), ok))
            /\ IF ok
               THEN /\ locals' = [locals EXCEPT !.targetDir = targetDir]
                    /\ pc' = "writeTs"
                    /\ UNCHANGED exitCode
               ELSE Exit(1) /\ UNCHANGED locals
    /\ UNCHANGED <<fsVars, envVars, strVars, prefVars>>

\* Whether the XML file is attempted at all.
WantsXml(templates, scriptType) == templates.XML # <<>> /\ scriptType # <<"c", "o", "m", "m", "o", "n">>

\* data.ScriptPath, tsPath and renderAndWrite(tsPath, templates.TypeScript, data)
AddWriteTs ==
    /\ cmd = "add" /\ pc = "writeTs"
    /\ LET tsFileNameWithType ==
               TsFileNameWithType(locals.config.CompanyName, locals.scriptName,
                                  locals.scriptType)
           data == [locals.data EXCEPT
                      !.ScriptPath = FinalScriptPath(scriptPathPrefix,
                                         locals.selectedFolder, tsFileNameWithType)]
           tsPath == Join(locals.targetDir, tsFileNameWithType \o <<".", "t", "s">>)
       IN  \E outcome \in RenderOutcomes(locals.templates.TypeScript) :
            /\ files' = renderAndWrite(files, tsPath, locals.templates.TypeScript,
                                       data, outcome)
            /\ trace' = Append(trace, Ev("renderAndWrite", Resolve(tsPath),
                                         outcome = "ok"))
            /\ locals' = [locals EXCEPT !.data = data, !.tsPath = tsPath]
            /\ IF outcome # "ok" THEN Exit(1)
               ELSE IF WantsXml(locals.templates, locals.scriptType)
               THEN pc' = "findObjectsDir" /\ UNCHANGED exitCode
               ELSE Exit(0)
    /\ UNCHANGED <<cwd, dirs, envVars, strVars, prefVars>>

\* objectsDir, err := findObjectsDir() and recordType := getRecordType(scriptType)
AddFindObjectsDir ==
    /\ cmd = "add" /\ pc = "findObjectsDir"
    /\ LET r == findObjectsDir
           after(made) ==
               IF getRecordType(locals.scriptType) = <<>>
               THEN /\ trace' = trace \o made
                                  \o <<Ev("warning", "no record type", TRUE)>>
                    /\ Exit(0)
               ELSE /\ trace' = trace \o made
                    /\ pc' = "mkXmlDir"
                    /\ UNCHANGED exitCode
       IN  IF ~r.create
           THEN /\ locals' = [locals EXCEPT !.objectsDir = r.path]
                /\ after(<<>>)
                /\ UNCHANGED dirs
           ELSE \E ok \in MkdirOutcomes(r.path) :
                /\ dirs' = MkdirAll(dirs, Resolve(r.path), ok)
                /\ IF ok
                   THEN /\ locals' = [locals EXCEPT !.objectsDir = r.path]
                        /\ after(<<Ev("mkdir", Resolve(r.path), TRUE)>>)
                   ELSE /\ trace' = Append(trace, Ev("mkdir", Resolve(r.path), FALSE))
                        /\ Exit(1) /\ UNCHANGED locals
    /\ UNCHANGED <<fsVars, envVars, strVars, prefVars>>

\* xmlTargetDir and os.MkdirAll(xmlTargetDir, 0755)
XmlTargetDir(objectsDir, projectName, recordType) ==
    Join3(objectsDir, projectName, recordType)

\* A slip that takes the failure to create the folder for a warning.
AddMkXmlDir_Continues ==
    /\ cmd = "add" /\ pc = "mkXmlDir"
    /\ LET xmlTargetDir == XmlTargetDir(locals.objectsDir, locals.config.ProjectName,
                                        getRecordType(locals.scriptType))
       IN  \E ok \in MkdirOutcomes(xmlTargetDir) :
            /\ dirs' = MkdirAll(dirs, Resolve(xmlTargetDir), ok)
            /\ trace' = Append(trace, Ev("mkdir", Resolve(xmlTargetDir), ok))
            /\ pc' = "writeXml" /\ UNCHANGED exitCode
    /\ UNCHANGED <<locals, fsVars, envVars, strVars, prefVars>>


AddMkXmlDir ==
    /\ cmd = "add" /\ pc = "mkXmlDir"
    /\ LET xmlTargetDir == XmlTargetDir(locals.objectsDir, locals.config.ProjectName,
                                        getRecordType(locals.scriptType))
       IN  \E ok \in MkdirOutcomes(xmlTargetDir) :
            /\ dirs' = MkdirAll(dirs, Resolve(xmlTargetDir), ok)
            /\ trace' = Append(trace, Ev("mkdir", Resolve(xmlTargetDir), ok))
            /\ IF ok THEN pc' = "writeXml" /\ UNCHANGED exitCode ELSE Exit(1)
    /\ UNCHANGED <<locals, fsVars, envVars, strVars, prefVars>>

\* xmlPath and renderAndWrite(xmlPath, templates.XML, data)
AddWriteXml ==
    /\ cmd = "add" /\ pc = "writeXml"
    /\ LET xmlTargetDir == XmlTargetDir(locals.objectsDir, locals.config.ProjectName,
                                        getRecordType(locals.scriptType))
           xmlFileName == PrefixedFileName(locals.config.CompanyName,
                                           locals.scriptName) \o <<".", "x", "m", "l">>
           xmlPath == Join(xmlTargetDir, xmlFileName)
       IN  \E outcome \in RenderOutcomes(locals.templates.XML) :
            /\ files' = renderAndWrite(files, xmlPath, locals.templates.XML,
                                       locals.data, outcome)
            /\ trace' = Append(trace, Ev("renderAndWrite", Resolve(xmlPath),
                                         outcome = "ok"))
            /\ locals' = [locals EXCEPT !.xmlPath = xmlPath]
            /\ Exit(IF outcome = "ok" THEN 0 ELSE 1)
    /\ UNCHANGED <<cwd, dirs, envVars, strVars, prefVars>>

AddNext ==
    \/ AddLoadConfig
    \/ AddScriptNameArg
    \/ AddScriptNamePrompt
    \/ AddDescription
    \/ AddRecordType
    \/ AddGetTemplates
    \/ AddFindSuiteScriptsDir
    \/ AddFindAllFolders
    \/ AddRootQuestion
    \/ AddMenuInput
    \/ AddMkTarget
    \/ AddWriteTs
    \/ AddFindObjectsDir
    \/ AddMkXmlDir
    \/ AddWriteXml

-----------------------------------------------------------------------------
(* runInit: the create command                                              *)

\* strings.ContainsAny(projectName, `<>:"/\|?*`)
InvalidChars == {"<", ">", ":", "\"", "/", "\\", "|", "?", "*"}
ContainsAny(s, chars) == \E i \in 1..Len(s) : s[i] \in chars

RECURSIVE Split(_, _)
\* strings.Split(s, b): the pieces between the occurrences of the byte b,
\* the empty ones included.
Split(s, b) ==
    LET stops == {i \in 1..Len(s) : s[i] = b}
    IN  IF stops = {} THEN <<s>>
        ELSE LET n == CHOOSE i \in stops : \A j \in stops : i <= j
             IN  <<SubSeq(s, 1, n - 1)>> \o Split(SubSeq(s, n + 1, Len(s)), b)

RECURSIVE AbsPath(_)
\* The absolute path that names a directory.
AbsPath(dir) ==
    IF dir = <<>> THEN <<>> ELSE <<sep>> \o Head(dir) \o AbsPath(Tail(dir))

\* os.Getwd()
Getwd == AbsPath(cwd)

\* The flags and the variables of runInit.
CreateLocals(name, skipSetup, output) ==
    [projectNameFlag |-> name,
     skipSetupFlag |-> skipSetup,
     outputDirFlag |-> output,
     suiteCloudCmd |-> <<>>,
     userConfig |-> {},
     projectName |-> <<>>,
     companyName |-> <<>>,
     userName |-> <<>>,
     userEmail |-> <<>>,
     outputDir |-> <<>>,
     projectDir |-> <<>>,
     originalDir |-> <<>>,
     chdir |-> FALSE,
     fileIndex |-> 1]

\* Lines typed at the prompts of runInit.
ProjectNameLines == {<<>>, <<" ", "s", "h", "o", "p", "\t">>}
CompanyNameLines == {<<>>, <<" ", "B", "e", "t", "a", " ">>}
UserNameLines == {<<>>, <<"u", "2">>}
UserEmailLines == {<<>>, <<"e", "@", "y">>}

\* The run ends with os.Exit(1) after a failed step.
Fail(event) == trace' = Append(trace, event) /\ Exit(1)

\* getSuiteCloudCommand(): exec.LookPath finds suitecloud, suitecloud.cmd or
\* neither.
getSuiteCloudCommand == world.suitecloud

\* suiteCloudCmd := getSuiteCloudCommand()
CreateGetSuiteCloudCommand ==
    /\ cmd = "create" /\ pc = "getSuiteCloudCommand"
    /\ IF getSuiteCloudCommand = <<>>
       THEN Fail(Ev("LookPath", "suitecloud", FALSE)) /\ UNCHANGED locals
       ELSE /\ locals' = [locals EXCEPT !.suiteCloudCmd = getSuiteCloudCommand]
            /\ pc' = "LoadUserConfig"
            /\ UNCHANGED <<trace, exitCode>>
    /\ UNCHANGED <<fsVars, dirs, envVars, strVars, prefVars>>

\* userConfig, err := LoadUserConfig(): an error is a warning and leaves
\* userConfig nil.
CreateLoadUserConfig ==
    /\ cmd = "create" /\ pc = "LoadUserConfig"
    /\ \E outcome \in ReadOutcomes :
        LET r == LoadUserConfig(files, outcome)
            present == JoinName(HomeDir, DotNetsuiteCli) \in DOMAIN files
        IN  /\ locals' = [locals EXCEPT !.userConfig =
                            IF present /\ r.err = "nil" THEN {r.config} ELSE {}]
            /\ trace' = Append(trace, Ev("LoadUserConfig", r.err, r.err = "nil"))
    /\ pc' = "projectName"
    /\ UNCHANGED <<exitCode, fsVars, dirs, envVars, strVars, prefVars>>

\* projectName: the flag, or the line read at the prompt, trimmed
CreateProjectName ==
    /\ cmd = "create" /\ pc = "projectName"
    /\ IF TrimSpace(locals.projectNameFlag) # <<>>
       THEN /\ locals' = [locals EXCEPT !.projectName = TrimSpace(locals.projectNameFlag)]
            /\ pc' = "companyName"
            /\ UNCHANGED <<trace, exitCode>>
       ELSE \E line \in ProjectNameLines \cup {EOF} :
            IF line = EOF
            THEN Fail(Ev("prompt", "project name", FALSE)) /\ UNCHANGED locals
            ELSE IF TrimSpace(line) = <<>>
            THEN /\ trace' = trace \o <<Ev("prompt", "project name", TRUE),
                                        Ev("validate", "project name", FALSE)>>
                 /\ Exit(1) /\ UNCHANGED locals
            ELSE /\ locals' = [locals EXCEPT !.projectName = TrimSpace(line)]
                 /\ trace' = Append(trace, Ev("prompt", "project name", TRUE))
                 /\ pc' = "companyName"
                 /\ UNCHANGED exitCode
    /\ UNCHANGED <<fsVars, dirs, envVars, strVars, prefVars>>

\* A field of userConfig, empty when userConfig is nil.
UserConfigField(field) ==
    IF locals.userConfig = {} THEN <<>>
    ELSE (CHOOSE c \in locals.userConfig : TRUE)[field]

\* One prompt with a default: the line read, trimmed; the default for a
\* blank line; exit 1 when there is neither, or no line.
CreatePrompt(field, what, lines, default, nextPc) ==
    \E line \in lines \cup {EOF} :
        LET value == IF TrimSpace(line) # <<>> THEN TrimSpace(line) ELSE default
        IN  IF line = EOF
            THEN Fail(Ev("prompt", what, FALSE)) /\ UNCHANGED locals
            ELSE IF value = <<>>
            THEN /\ trace' = trace \o <<Ev("prompt", what, TRUE),
                                        Ev("validate", what, FALSE)>>
                 /\ Exit(1) /\ UNCHANGED locals
            ELSE /\ locals' = [locals EXCEPT ![field] = value]
                 /\ trace' = Append(trace, Ev("prompt", what, TRUE))
                 /\ pc' = nextPc
                 /\ UNCHANGED exitCode

CreateCompanyName ==
    /\ cmd = "create" /\ pc = "companyName"
    /\ CreatePrompt("companyName", "company name", CompanyNameLines,
                    UserConfigField("CompanyName"), "userName")
    /\ UNCHANGED <<fsVars, dirs, envVars, strVars, prefVars>>

\* defaultUserName: the stored user name, or the name of the current user
\* without its domain.
defaultUserName ==
    IF UserConfigField("UserName") # <<>> THEN UserConfigField("UserName")
    ELSE IF world.currentUser = {} THEN <<>>
    ELSE LET Username == CHOOSE u \in world.currentUser : TRUE
             parts == Split(Username, "\\")
         IN  IF Len(parts) > 1 THEN parts[2] ELSE Username

CreateUserName ==
    /\ cmd = "create" /\ pc = "userName"
    /\ CreatePrompt("userName", "user name", UserNameLines, defaultUserName,
                    "userEmail")
    /\ UNCHANGED <<fsVars, dirs, envVars, strVars, prefVars>>

CreateUserEmail ==
    /\ cmd = "create" /\ pc = "userEmail"
    /\ CreatePrompt("userEmail", "user email", UserEmailLines,
                    UserConfigField("UserEmail"), "Chdir")
    /\ UNCHANGED <<fsVars, dirs, envVars, strVars, prefVars>>

\* The check of the project name, outputDir and projectDir, and
\* os.Chdir(outputDir) with its deferred os.Chdir(originalDir).
CreateChdir ==
    /\ cmd = "create" /\ pc = "Chdir"
    /\ LET wd == Getwd
           outputDir == IF locals.outputDirFlag = <<".">> THEN wd
                        ELSE IF IsAbs(locals.outputDirFlag) THEN locals.outputDirFlag
                        ELSE Join(wd, locals.outputDirFlag)
           projectDir == Join(outputDir, locals.projectName)
       IN  IF ContainsAny(locals.projectName, InvalidChars)
           THEN Fail(Ev("validate", "invalid characters", FALSE))
                /\ UNCHANGED <<locals, cwd>>
           ELSE IF Exists(projectDir)
           THEN Fail(Ev("validate", "project directory exists", FALSE))
                /\ UNCHANGED <<locals, cwd>>
           ELSE IF ~IsDir(outputDir)
           THEN Fail(Ev("Chdir", Resolve(outputDir), FALSE))
                /\ UNCHANGED <<locals, cwd>>
           ELSE /\ cwd' = Resolve(outputDir)
                /\ locals' = [locals EXCEPT !.outputDir = outputDir,
                                            !.projectDir = projectDir,
                                            !.originalDir = wd,
                                            !.chdir = TRUE]
                /\ trace' = Append(trace, Ev("Chdir", Resolve(outputDir), TRUE))
                /\ pc' = "project:create"
                /\ UNCHANGED exitCode
    /\ UNCHANGED <<files, dirs, envVars, strVars, prefVars>>

\* What suitecloud project:create can do: make the project, fail, fail
\* with the project directory made, or end well having made nothing.
ProjectCreateOutcomes == {"ok", "failed", "failed late", "no directory"}

\* The directories of a new project.
ProjectTree(dir) ==
    Ancestors(dir \o <<<<"s", "r", "c">>, <<"F", "i", "l", "e", "C", "a", "b", "i", "n", "e", "t">>, <<"S", "u", "i", "t", "e", "S", "c", "r", "i", "p", "t", "s">>>>)
        \cup Ancestors(dir \o <<<<"s", "r", "c">>, <<"O", "b", "j", "e", "c", "t", "s">>>>)

\* createCmd.Run() and the check that projectDir is there; os.Exit skips
\* the deferred os.Chdir.
CreateProjectCreate ==
    /\ cmd = "create" /\ pc = "project:create"
    /\ \E outcome \in ProjectCreateOutcomes :
        LET made == Append(cwd, locals.projectName)
            after == CASE outcome = "ok" -> dirs \cup ProjectTree(made)
                       [] outcome = "failed late" -> dirs \cup {made}
                       [] OTHER -> dirs
        IN  /\ dirs' = after
            /\ IF outcome \in {"failed", "failed late"}
               THEN Fail(Ev("project:create", "run", FALSE))
               ELSE IF Resolve(locals.projectDir) \notin after
               THEN Fail(Ev("project:create", "not created", FALSE))
               ELSE /\ trace' = Append(trace, Ev("project:create", "run", TRUE))
                    /\ pc' = "projectFolders"
                    /\ UNCHANGED exitCode
    /\ UNCHANGED <<locals, fsVars, envVars, strVars, prefVars>>

\* The two os.MkdirAll of the project folders: a failure is a warning.
CreateProjectFolders ==
    /\ cmd = "create" /\ pc = "projectFolders"
    /\ LET suiteScriptsDir == Join(locals.projectDir, <<"s", "r", "c", "/", "F", "i", "l", "e", "C", "a", "b", "i", "n", "e", "t", "/", "S", "u", "i", "t", "e", "S", "c", "r", "i", "p", "t", "s">>)
           projectFolderPath == Join(suiteScriptsDir, locals.projectName)
           objectsDir == Join(locals.projectDir, <<"s", "r", "c", "/", "O", "b", "j", "e", "c", "t", "s">>)
           objectsProjectFolderPath == Join(objectsDir, locals.projectName)
       IN  \E ok1 \in MkdirOutcomes(projectFolderPath),
              ok2 \in MkdirOutcomes(objectsProjectFolderPath) :
            /\ dirs' = MkdirAll(MkdirAll(dirs, Resolve(projectFolderPath), ok1),
                                Resolve(objectsProjectFolderPath), ok2)
            /\ trace' = trace \o <<Ev("mkdir", Resolve(projectFolderPath), ok1),
                                   Ev("mkdir", Resolve(objectsProjectFolderPath), ok2)>>
    /\ pc' = "createFileFromTemplate"
    /\ UNCHANGED <<exitCode, locals, fsVars, envVars, strVars, prefVars>>

\* The configuration files, in the order they are written.
ConfigFiles ==
    <<<<"p", "a", "c", "k", "a", "g", "e", ".", "j", "s", "o", "n">>, <<"s", "u", "i", "t", "e", "c", "l", "o", "u", "d", ".", "c", "o", "n", "f", "i", "g", ".", "j", "s">>, <<"t", "s", "c", "o", "n", "f", "i", "g", ".", "j", "s", "o", "n">>, <<".", "g", "i", "t", "i", "g", "n", "o", "r", "e">>>>

InitTemplatePath(name) == <<"t", "e", "m", "p", "l", "a", "t", "e", "s", "/">> \o name \o <<".", "t", "m", "p", "l">>

\* What createFileFromTemplate can do: the template cannot be read, or
\* whatever rendering and writing can do.
CreateFileOutcomes(templatePath) ==
    IF templatePath \notin DOMAIN templateFS THEN {"read failed"}
    ELSE RenderOutcomes(templateFS[templatePath])

\* createFileFromTemplate(path, templatePath, data): the files afterwards
createFileFromTemplate(fs, path, templatePath, data, outcome) ==
    IF outcome \in WriteOutcomes
    THEN WriteFile(fs, Resolve(path), Render(templateFS[templatePath], data), outcome)
    ELSE fs

\* One of the four calls of createFileFromTemplate.
CreateFileFromTemplate ==
    /\ cmd = "create" /\ pc = "createFileFromTemplate"
    /\ LET name == ConfigFiles[locals.fileIndex]
           path == Join(locals.projectDir, name)
           templateData == [ProjectName |-> locals.projectName]
       IN  \E outcome \in CreateFileOutcomes(InitTemplatePath(name)) :
            /\ files' = createFileFromTemplate(files, path, InitTemplatePath(name),
                                               templateData, outcome)
            /\ IF outcome # "ok"
               THEN Fail(Ev("createFileFromTemplate", Resolve(path), FALSE))
                    /\ UNCHANGED locals
               ELSE /\ trace' = Append(trace, Ev("createFileFromTemplate",
                                                 Resolve(path), TRUE))
                    /\ UNCHANGED exitCode
                    /\ IF locals.fileIndex < Len(ConfigFiles)
                       THEN /\ locals' = [locals EXCEPT !.fileIndex = @ + 1]
                            /\ UNCHANGED pc
                       ELSE pc' = "account:setup" /\ UNCHANGED locals
    /\ UNCHANGED <<cwd, dirs, envVars, strVars, prefVars>>

\* A slip that ends the run when account:setup fails.
CreateAccountSetup_Fatal ==
    /\ cmd = "create" /\ pc = "account:setup"
    /\ IF locals.skipSetupFlag
       THEN UNCHANGED trace /\ pc' = "SaveConfig" /\ UNCHANGED exitCode
       ELSE \E ok \in BOOLEAN :
              /\ trace' = Append(trace, Ev("account:setup", "run", ok))
              /\ IF ok THEN pc' = "SaveConfig" /\ UNCHANGED exitCode ELSE Exit(1)
    /\ UNCHANGED <<locals, fsVars, dirs, envVars, strVars, prefVars>>

\* suitecloud account:setup unless --skip-setup: a failure is a warning.
CreateAccountSetup ==
    /\ cmd = "create" /\ pc = "account:setup"
    /\ IF locals.skipSetupFlag
       THEN UNCHANGED trace
       ELSE \E ok \in BOOLEAN : trace' = Append(trace, Ev("account:setup", "run", ok))
    /\ pc' = "SaveConfig"
    /\ UNCHANGED <<exitCode, locals, fsVars, dirs, envVars, strVars, prefVars>>

\* The records runInit saves.
ConfigToSave ==
    ProjectConfig(locals.projectName, locals.companyName, locals.userName,
                  locals.userEmail)
UserConfigToSave ==
    UserConfig(locals.companyName, locals.userName, locals.userEmail)

\* SaveConfig(projectDir, config): a failure is a warning.
CreateSaveConfig ==
    /\ cmd = "create" /\ pc = "SaveConfig"
    /\ \E outcome \in WriteOutcomes :
        /\ files' = SaveConfig(files, Resolve(locals.projectDir), ConfigToSave, outcome)
        /\ trace' = Append(trace, Ev("SaveConfig", SaveErr(outcome), outcome = "ok"))
    /\ pc' = "SaveUserConfig"
    /\ UNCHANGED <<exitCode, locals, cwd, dirs, envVars, strVars, prefVars>>

\* A slip that ends the run with exit code 1 when the save fails.
CreateSaveUserConfig_Fatal ==
    /\ cmd = "create" /\ pc = "SaveUserConfig"
    /\ \E outcome \in WriteOutcomes :
        /\ files' = SaveUserConfig(files, UserConfigToSave, outcome)
        /\ trace' = Append(trace, Ev("SaveUserConfig", SaveErr(outcome), outcome = "ok"))
        /\ Exit(IF outcome = "ok" THEN 0 ELSE 1)
    /\ cwd' = Resolve(locals.originalDir)
    /\ UNCHANGED <<locals, dirs, envVars, strVars, prefVars>>

\* SaveUserConfig(userConfigToSave): a failure is a warning; then runInit
\* returns, the deferred os.Chdir(originalDir) runs and the process ends
\* with code 0.
CreateSaveUserConfig ==
    /\ cmd = "create" /\ pc = "SaveUserConfig"
    /\ \E outcome \in WriteOutcomes :
        /\ files' = SaveUserConfig(files, UserConfigToSave, outcome)
        /\ trace' = Append(trace, Ev("SaveUserConfig", SaveErr(outcome), outcome = "ok"))
    /\ cwd' = Resolve(locals.originalDir)
    /\ Exit(0)
    /\ UNCHANGED <<locals, dirs, envVars, strVars, prefVars>>

CreateNext ==
    \/ CreateGetSuiteCloudCommand
    \/ CreateLoadUserConfig
    \/ CreateProjectName
    \/ CreateCompanyName
    \/ CreateUserName
    \/ CreateUserEmail
    \/ CreateChdir
    \/ CreateProjectCreate
    \/ CreateProjectFolders
    \/ CreateFileFromTemplate
    \/ CreateAccountSetup
    \/ CreateSaveConfig
    \/ CreateSaveUserConfig

-----------------------------------------------------------------------------
(* The directories a run of add starts in                                   *)

AcmeConfig ==
    ProjectConfig(<<"a", "c", "m", "e", "-", "p", "r", "o", "j">>, <<"A", "c", "m", "e">>, <<"j", "d", "o", "e">>, <<"j", "d", "o", "e", "@", "x", ".", "c", "o", "m">>)
\* A record whose project name gives no default script name and whose
\* company name is blank.
BlankConfig == ProjectConfig(<<"-">>, <<" ">>, <<"u">>, <<>>)

\* The directories below the working directory, from their relative paths.
Under(base, relPaths) ==
    UNION {Ancestors(base \o p) : p \in relPaths} \cup Ancestors(base) \cup {HomeDir}

ConfigFile(config) ==
    JoinName(WorkDir, DotNetsuiteCli) :> MarshalIndent(config, ProjectConfigTags)

\* The 21 folder names of the world with two pages.
ManyNames ==
    {<<AsciiOrder[i]>> : i \in
        {j \in 1..Len(AsciiOrder) : AsciiOrder[j] \in AsciiLower /\ LexLess(<<AsciiOrder[j]>>, <<"v">>)}}

AddWorlds ==
    { \* as create leaves it
      [dirs |-> Under(WorkDir, {<<<<"s", "r", "c">>, <<"F", "i", "l", "e", "C", "a", "b", "i", "n", "e", "t">>, <<"S", "u", "i", "t", "e", "S", "c", "r", "i", "p", "t", "s">>, <<"a", "c", "m", "e", "-", "p", "r", "o", "j">>>>,
                                <<<<"s", "r", "c">>, <<"O", "b", "j", "e", "c", "t", "s">>, <<"a", "c", "m", "e", "-", "p", "r", "o", "j">>>>}),
       files |-> ConfigFile(AcmeConfig), unreadable |-> {}, sep |-> "/"],
      \* nothing but the preference file
      [dirs |-> Under(WorkDir, {}),
       files |-> ConfigFile(BlankConfig), unreadable |-> {}, sep |-> "/"],
      \* src alone
      [dirs |-> Under(WorkDir, {<<<<"s", "r", "c">>>>}),
       files |-> ConfigFile(AcmeConfig), unreadable |-> {}, sep |-> "/"],
      \* nested folders and a top-level Objects, on Windows
      [dirs |-> Under(WorkDir, {<<<<"s", "r", "c">>, <<"F", "i", "l", "e", "C", "a", "b", "i", "n", "e", "t">>, <<"S", "u", "i", "t", "e", "S", "c", "r", "i", "p", "t", "s">>, <<"a">>, <<"b">>>>,
                                <<<<"s", "r", "c">>, <<"F", "i", "l", "e", "C", "a", "b", "i", "n", "e", "t">>, <<"S", "u", "i", "t", "e", "S", "c", "r", "i", "p", "t", "s">>, <<"c">>>>,
                                <<<<"O", "b", "j", "e", "c", "t", "s">>>>}),
       files |-> ConfigFile(BlankConfig)
                   @@ (WorkDir \o <<<<"s", "r", "c">>, <<"F", "i", "l", "e", "C", "a", "b", "i", "n", "e", "t">>, <<"S", "u", "i", "t", "e", "S", "c", "r", "i", "p", "t", "s">>, <<"b", ".", "t", "s">>>>
                         :> [kind |-> "text", tmpl |-> <<>>]),
       unreadable |-> {}, sep |-> "\\"],
      \* the same with a folder that cannot be read
      [dirs |-> Under(WorkDir, {<<<<"s", "r", "c">>, <<"F", "i", "l", "e", "C", "a", "b", "i", "n", "e", "t">>, <<"S", "u", "i", "t", "e", "S", "c", "r", "i", "p", "t", "s">>, <<"a">>, <<"b">>>>,
                                <<<<"s", "r", "c">>, <<"F", "i", "l", "e", "C", "a", "b", "i", "n", "e", "t">>, <<"S", "u", "i", "t", "e", "S", "c", "r", "i", "p", "t", "s">>, <<"c">>>>,
                                <<<<"O", "b", "j", "e", "c", "t", "s">>>>}),
       files |-> ConfigFile(AcmeConfig),
       unreadable |-> {WorkDir \o <<<<"s", "r", "c">>, <<"F", "i", "l", "e", "C", "a", "b", "i", "n", "e", "t">>, <<"S", "u", "i", "t", "e", "S", "c", "r", "i", "p", "t", "s">>, <<"a">>>>}, sep |-> "/"],
      \* 21 folders, two pages
      [dirs |-> Under(WorkDir, {<<<<"S", "u", "i", "t", "e", "S", "c", "r", "i", "p", "t", "s">>, n>> : n \in ManyNames}),
       files |-> ConfigFile(AcmeConfig), unreadable |-> {}, sep |-> "/"],
      \* not a project folder
      [dirs |-> Under(WorkDir, {<<<<"s", "r", "c">>>>}),
       files |-> NoFiles, unreadable |-> {}, sep |-> "/"],
      \* a preference file cut short
      [dirs |-> Under(WorkDir, {<<<<"s", "r", "c">>>>}),
       files |-> (JoinName(WorkDir, DotNetsuiteCli) :> PartialFile),
       unreadable |-> {}, sep |-> "/"] }

\* The templates embedded for one script type: both, no XML template, no
\* TypeScript template, an empty XML template.
TsBody(scriptType) == <<"/", "/", " ">> \o scriptType
XmlBody(scriptType) == <<"<">> \o scriptType \o <<"/", ">">>

TemplateSets(scriptType) ==
    {TsTemplatePath(scriptType) :> TsBody(scriptType)
        @@ XmlTemplatePath(scriptType) :> XmlBody(scriptType),
     TsTemplatePath(scriptType) :> TsBody(scriptType),
     XmlTemplatePath(scriptType) :> XmlBody(scriptType),
     TsTemplatePath(scriptType) :> TsBody(scriptType)
        @@ XmlTemplatePath(scriptType) :> <<>>}

\* The arguments after the script type.
AddArgs == {<<>>, <<<<"M", "y", " ", "R", "e", "p", "o", "r", "t">>>>}

AddInit ==
    /\ cmd = "add"
    /\ pc = "LoadConfig"
    /\ exitCode = -1
    /\ trace = <<>>
    /\ cwd = WorkDir
    /\ world \in AddWorlds
    /\ dirs = world.dirs
    /\ files = world.files
    /\ unreadable = world.unreadable
    /\ sep = world.sep
    /\ \E scriptType \in ScriptTypes :
        /\ templateFS \in TemplateSets(scriptType)
        /\ \E args \in AddArgs : locals = AddLocals(scriptType, args)

\* The variables of the other specifications, at rest.
NoStr == strIn = <<>> /\ strOut = NoResults
NoPrefs == prefResult = NoResult /\ saved = NoFiles
NoRun ==
    /\ cmd = "none" /\ pc = "none" /\ exitCode = -1
    /\ locals = <<>> /\ trace = <<>>
    /\ dirs = {} /\ unreadable = {} /\ sep = "/"
    /\ templateFS = NoFiles /\ world = <<>>

-----------------------------------------------------------------------------
(* The machines a run of create starts on                                   *)

AcmeUser == UserConfig(<<"A", "c", "m", "e">>, <<"j", "d", "o", "e">>, <<"j", "d", "o", "e", "@", "x", ".", "c", "o", "m">>)
\* A record of an older run, with the company alone.
CompanyOnly == UserConfig(<<"A", "c", "m", "e">>, <<>>, <<>>)

HomeFile(config) ==
    JoinName(HomeDir, DotNetsuiteCli) :> MarshalIndent(config, UserConfigTags)

\* The templates embedded for runInit.
InitTemplates ==
    [p \in {InitTemplatePath(ConfigFiles[i]) : i \in 1..Len(ConfigFiles)} |->
        <<"n", "a", "m", "e", ":", " ", "P", "r", "o", "j", "e", "c", "t", "N", "a", "m", "e">>]
WithoutTemplate(name) ==
    [p \in DOMAIN InitTemplates \ {InitTemplatePath(name)} |-> InitTemplates[p]]

OutDir == WorkDir \o <<<<"o", "u", "t">>>>

CreateWorlds ==
    { \* a first run
      [dirs |-> Ancestors(OutDir) \cup {HomeDir}, files |-> NoFiles,
       unreadable |-> {}, sep |-> "/",
       suitecloud |-> <<"s", "u", "i", "t", "e", "c", "l", "o", "u", "d">>, currentUser |-> {<<"j", "d", "o", "e">>},
       templates |-> InitTemplates],
      \* a later run
      [dirs |-> Ancestors(OutDir) \cup {HomeDir}, files |-> HomeFile(AcmeUser),
       unreadable |-> {}, sep |-> "/",
       suitecloud |-> <<"s", "u", "i", "t", "e", "c", "l", "o", "u", "d", ".", "c", "m", "d">>, currentUser |-> {<<"j", "d", "o", "e">>},
       templates |-> InitTemplates],
      \* stored preferences with the company alone, a Windows user name
      [dirs |-> Ancestors(OutDir) \cup {HomeDir}, files |-> HomeFile(CompanyOnly),
       unreadable |-> {}, sep |-> "/",
       suitecloud |-> <<"s", "u", "i", "t", "e", "c", "l", "o", "u", "d">>, currentUser |-> {<<"D", "O", "M", "\\", "u", "1">>},
       templates |-> InitTemplates],
      \* a preference file cut short, no current user, a template missing
      [dirs |-> Ancestors(OutDir) \cup {HomeDir},
       files |-> (JoinName(HomeDir, DotNetsuiteCli) :> PartialFile),
       unreadable |-> {}, sep |-> "/",
       suitecloud |-> <<"s", "u", "i", "t", "e", "c", "l", "o", "u", "d">>, currentUser |-> {},
       templates |-> WithoutTemplate(<<"t", "s", "c", "o", "n", "f", "i", "g", ".", "j", "s", "o", "n">>)],
      \* no suitecloud
      [dirs |-> Ancestors(OutDir) \cup {HomeDir}, files |-> NoFiles,
       unreadable |-> {}, sep |-> "/",
       suitecloud |-> <<>>, currentUser |-> {<<"j", "d", "o", "e">>},
       templates |-> InitTemplates],
      \* the project is there already
      [dirs |-> Ancestors(OutDir \o <<<<"s", "h", "o", "p">>>>) \cup Ancestors(WorkDir \o <<<<"s", "h", "o", "p">>>>)
                    \cup {HomeDir},
       files |-> HomeFile(AcmeUser),
       unreadable |-> {}, sep |-> "/",
       suitecloud |-> <<"s", "u", "i", "t", "e", "c", "l", "o", "u", "d">>, currentUser |-> {<<"j", "d", "o", "e">>},
       templates |-> InitTemplates] }

\* The command lines: --name, --skip-setup, --output.
CreateFlags ==
    { CreateLocals(<<"s", "h", "o", "p">>, FALSE, <<".">>),
      CreateLocals(<<>>, TRUE, <<"o", "u", "t">>),
      CreateLocals(<<" ", "s", "h", "o", "p", " ">>, FALSE, <<"o", "u", "t">>),
      CreateLocals(<<"a", ":", "b">>, TRUE, <<".">>),
      CreateLocals(<<"s", "h", "o", "p">>, TRUE, <<"g", "o", "n", "e">>),
      CreateLocals(<<"s", "h", "o", "p">>, FALSE, <<"/", "w", "o", "r", "k", "/", "o", "u", "t">>) }

CreateInit ==
    /\ cmd = "create"
    /\ pc = "getSuiteCloudCommand"
    /\ exitCode = -1
    /\ trace = <<>>
    /\ cwd = WorkDir
    /\ world \in CreateWorlds
    /\ dirs = world.dirs
    /\ files = world.files
    /\ unreadable = world.unreadable
    /\ sep = world.sep
    /\ templateFS = world.templates
    /\ locals \in CreateFlags

-----------------------------------------------------------------------------
(* The specifications of the two commands                                   *)

\* One run of add.
InitAdd == AddInit /\ NoStr /\ NoPrefs
SpecAdd == InitAdd /\ [][AddNext]_vars

\* One run of create.
InitCreate == CreateInit /\ NoStr /\ NoPrefs
SpecCreate == InitCreate /\ [][CreateNext]_vars

\* One run of either command.
Init == InitAdd \/ InitCreate

Next == AddNext \/ CreateNext

Spec == Init /\ [][Next]_vars

-----------------------------------------------------------------------------
(* Properties of runAdd                                                     *)

Exited == pc = "exited"

\* The run was cancelled at the question about the root.
Cancelled == \E i \in 1..Len(trace) : trace[i].ev = "cancelled"

\* add ran to its end: both artifacts it had to write are written.
AddSucceeded == cmd = "add" /\ Exited /\ exitCode = 0 /\ ~Cancelled

\* The files and directories the run has created or changed.
NewFiles ==
    {p \in DOMAIN files : p \notin DOMAIN world.files \/ files[p] # world.files[p]}
NewDirs == dirs \ world.dirs

IsPrefixOf(p, q) == Len(p) <= Len(q) /\ SubSeq(q, 1, Len(p)) = p

\* The places an objects root can be.
ObjectsRoots == {Resolve(ObjectsPaths[i]) : i \in 1..Len(ObjectsPaths)}

\* The script name as given: the argument, or the answer to the prompt
\* (trimmed, or the default when blank).
NameGiven ==
    IF Len(locals.args) > 0 THEN locals.args[1] ELSE locals.scriptName

\* The folder selected, as path components below the destination root.
SelectedComponents ==
    IF locals.selection = 0 THEN <<>>
    ELSE SplitOn(locals.folders[locals.selection].Path, "/")

ExpectedTsName ==
    GetCompanyPrefix(locals.config.CompanyName) \o <<"_">> \o NameGiven \o <<"_">>
        \o locals.scriptType \o <<".", "t", "s">>
ExpectedXmlName ==
    GetCompanyPrefix(locals.config.CompanyName) \o <<"_">> \o NameGiven \o <<".", "x", "m", "l">>

ExpectedTsFile ==
    Resolve(locals.suiteScriptsDir) \o SelectedComponents \o <<ExpectedTsName>>
ExpectedXmlFile ==
    Resolve(locals.objectsDir)
        \o <<locals.config.ProjectName, recordTypeMap[locals.scriptType], ExpectedXmlName>>

\* The secondary artifact applies: the type has an XML template with text
\* in it, is not common, and has a record-type tag.
SecondaryApplies ==
    /\ XmlTemplatePath(locals.scriptType) \in DOMAIN templateFS
    /\ templateFS[XmlTemplatePath(locals.scriptType)] # <<>>
    /\ locals.scriptType # <<"c", "o", "m", "m", "o", "n">>
    /\ locals.scriptType \in DOMAIN recordTypeMap

\* C5 as stated: for a script type without a record-type mapping a
\* successful add writes exactly one file and creates no objects root nor any
\* directory under one.
C5_AsStated ==
    (AddSucceeded /\ locals.scriptType \notin DOMAIN recordTypeMap) =>
        /\ NewFiles = {ExpectedTsFile}
        /\ \A d \in NewDirs : \A r \in ObjectsRoots : ~IsPrefixOf(r, d)

\* C6: after a successful add the primary artifact is the file
\* <suiteScriptsRoot>/[selectedSubfolder/]<prefix>_<scriptName>_<category>.ts
\* and, when a secondary artifact applies, the secondary artifact is the file
\* <objectsRoot>/<projectName>/<recordTypeTag>/<prefix>_<scriptName>.xml; the
\* run writes no other file.
C6_ArtifactPaths ==
    AddSucceeded =>
        /\ locals.suiteScriptsDir \in
              {SuiteScriptsPaths[i] : i \in 1..Len(SuiteScriptsPaths)}
        /\ ExpectedTsFile \in NewFiles
        /\ files[ExpectedTsFile] = Render(TemplateBody(TsTemplatePath(locals.scriptType)),
                                          locals.data)
        /\ SecondaryApplies =>
              /\ Resolve(locals.objectsDir) \in ObjectsRoots
              /\ ExpectedXmlFile \in NewFiles
              /\ files[ExpectedXmlFile] = Render(templateFS[XmlTemplatePath(locals.scriptType)],
                                                 locals.data)
        /\ NewFiles = {ExpectedTsFile}
                        \cup (IF SecondaryApplies THEN {ExpectedXmlFile} ELSE {})

\* C6 witness: a userevent script, named at the prompt, was added to a nested
\* folder, with the record type CUSTOMER typed in; both files are written.
C6_Witness ==
    /\ AddSucceeded
    /\ locals.scriptType = <<"u", "s", "e", "r", "e", "v", "e", "n", "t">>
    /\ locals.recordType = <<"C", "U", "S", "T", "O", "M", "E", "R">>
    /\ locals.args = <<>>
    /\ sep = "\\"
    /\ SelectedComponents = <<<<"a">>, <<"b">>>>
    /\ (WorkDir \o <<<<"s", "r", "c">>, <<"F", "i", "l", "e", "C", "a", "b", "i", "n", "e", "t">>, <<"S", "u", "i", "t", "e", "S", "c", "r", "i", "p", "t", "s">>, <<"a">>, <<"b">>, <<"c", "o", "m", "_", "x", "_", "u", "s", "e", "r", "e", "v", "e", "n", "t", ".", "t", "s">>>>) \in NewFiles
    /\ (WorkDir \o <<<<"O", "b", "j", "e", "c", "t", "s">>, <<"-">>, <<"u", "s", "e", "r", "e", "v", "e", "n", "t", "s", "c", "r", "i", "p", "t">>, <<"c", "o", "m", "_", "x", ".", "x", "m", "l">>>>) \in NewFiles

\* The path the template data should carry.
ExpectedScriptPath ==
    <<"S", "u", "i", "t", "e", "S", "c", "r", "i", "p", "t", "s", "/">>
        \o (IF locals.selection = 0 THEN <<>>
            ELSE locals.folders[locals.selection].Path \o <<"/">>)
        \o ExpectedTsName

\* The run is past the writing of the primary artifact.
TsWritten ==
    /\ cmd = "add"
    /\ \E i \in 1..Len(trace) : trace[i].ev = "renderAndWrite" /\ trace[i].ok
XmlWritten ==
    /\ cmd = "add"
    /\ \E i, j \in 1..Len(trace) :
          i < j /\ trace[i].ev = "renderAndWrite" /\ trace[j].ev = "renderAndWrite"
                /\ trace[j].ok

\* C7: the ScriptPath of the data rendered into the primary artifact is
\* "SuiteScripts/" + (selectedSubfolder + "/") + <prefix>_<scriptName>_<category>.ts,
\* which names the written file relative to the parent of the destination
\* root, and the secondary artifact is rendered from the same record.
C7_ScriptPath ==
    TsWritten =>
        /\ locals.data.ScriptPath = ExpectedScriptPath
        /\ files[Resolve(locals.tsPath)]
              = Render(TemplateBody(TsTemplatePath(locals.scriptType)), locals.data)
        /\ Resolve(locals.tsPath)
              = SubSeq(Resolve(locals.suiteScriptsDir), 1,
                       Len(Resolve(locals.suiteScriptsDir)) - 1)
                  \o SplitOn(locals.data.ScriptPath, "/")
        /\ XmlWritten =>
              files[Resolve(locals.xmlPath)] =
                  [kind |-> "text", tmpl |-> templateFS[XmlTemplatePath(locals.scriptType)],
                   data |-> [locals.data EXCEPT !.ScriptPath = ExpectedScriptPath]]

\* C7 witness: the scenario of the specification: project acme-proj of Acme,
\* suitelet "My Report" placed at the root; both artifacts are written.
C7_Witness ==
    /\ AddSucceeded /\ XmlWritten
    /\ locals.config = AcmeConfig
    /\ locals.scriptType = <<"s", "u", "i", "t", "e", "l", "e", "t">>
    /\ locals.scriptName = <<"M", "y", " ", "R", "e", "p", "o", "r", "t">>
    /\ locals.selection = 0 /\ Len(locals.folders) > 0
    /\ locals.data.ScriptPath = <<"S", "u", "i", "t", "e", "S", "c", "r", "i", "p", "t", "s", "/", "a", "c", "m", "_", "M", "y", " ", "R", "e", "p", "o", "r", "t", "_", "s", "u", "i", "t", "e", "l", "e", "t", ".", "t", "s">>
    /\ locals.data.ScriptId = <<"c", "u", "s", "t", "o", "m", "s", "c", "r", "i", "p", "t", "_", "m", "y", "_", "r", "e", "p", "o", "r", "t">>
    /\ locals.data.DeploymentId = <<"c", "u", "s", "t", "o", "m", "d", "e", "p", "l", "o", "y", "_", "m", "y", "_", "r", "e", "p", "o", "r", "t">>
    /\ locals.templates.TypeScript # <<>>
    /\ files[WorkDir \o <<<<"s", "r", "c">>, <<"F", "i", "l", "e", "C", "a", "b", "i", "n", "e", "t">>, <<"S", "u", "i", "t", "e", "S", "c", "r", "i", "p", "t", "s">>, <<"a", "c", "m", "_", "M", "y", " ", "R", "e", "p", "o", "r", "t", "_", "s", "u", "i", "t", "e", "l", "e", "t", ".", "t", "s">>>>].data.ScriptPath
          = <<"S", "u", "i", "t", "e", "S", "c", "r", "i", "p", "t", "s", "/", "a", "c", "m", "_", "M", "y", " ", "R", "e", "p", "o", "r", "t", "_", "s", "u", "i", "t", "e", "l", "e", "t", ".", "t", "s">>
    /\ files[WorkDir \o <<<<"s", "r", "c">>, <<"O", "b", "j", "e", "c", "t", "s">>, <<"a", "c", "m", "e", "-", "p", "r", "o", "j">>, <<"s", "u", "i", "t", "e", "l", "e", "t">>, <<"a", "c", "m", "_", "M", "y", " ", "R", "e", "p", "o", "r", "t", ".", "x", "m", "l">>>>].data.ScriptPath
          = <<"S", "u", "i", "t", "e", "S", "c", "r", "i", "p", "t", "s", "/", "a", "c", "m", "_", "M", "y", " ", "R", "e", "p", "o", "r", "t", "_", "s", "u", "i", "t", "e", "l", "e", "t", ".", "t", "s">>

\* The events of add that are failures of the file system or of rendering.
AddFailureKinds == {"LoadConfig", "template read", "mkdir", "renderAndWrite"}

\* The failed step i of the run ended it with exit code 1.
AbortedAt(i) == i = Len(trace) /\ Exited /\ exitCode = 1

-----------------------------------------------------------------------------
(* Properties of runInit                                                    *)

\* C1 as stated: once create has changed the working directory, the run
\* ends in the directory it started in, on every exit path.
C1_AsStated ==
    (cmd = "create" /\ Exited /\ locals.chdir) => cwd = Resolve(locals.originalDir)

SomeFailed(ev) == \E i \in 1..Len(trace) : trace[i].ev = ev /\ ~trace[i].ok
SomeDone(ev) == \E i \in 1..Len(trace) : trace[i].ev = ev /\ trace[i].ok
Attempted(ev) == \E i \in 1..Len(trace) : trace[i].ev = ev

\* The preference files of the run.
ProjectPrefFile == JoinName(Resolve(locals.projectDir), DotNetsuiteCli)
UserPrefFile == JoinName(HomeDir, DotNetsuiteCli)

\* C4: in create a failure of project:create ends the run with exit code 1
\* with no file written; a failure of account:setup does not end the run:
\* it goes on to save both preference records, each stored unless its own
\* write fails, and ends with exit code 0.
C4_SubprocessFailures ==
    cmd = "create" =>
        /\ SomeFailed("project:create")
              => /\ Exited /\ exitCode = 1
                 /\ trace[Len(trace)].ev = "project:create"
                 /\ files = world.files
        /\ SomeFailed("account:setup")
              => /\ pc \in {"SaveConfig", "SaveUserConfig", "exited"}
                 /\ pc = "SaveUserConfig" => Attempted("SaveConfig")
                 /\ Exited =>
                      /\ exitCode = 0
                      /\ Attempted("SaveConfig") /\ Attempted("SaveUserConfig")
                      /\ SomeDone("SaveConfig") =>
                            /\ ProjectPrefFile \in DOMAIN files
                            /\ files[ProjectPrefFile] =
                                  MarshalIndent(ConfigToSave, ProjectConfigTags)
                      /\ SomeDone("SaveUserConfig") =>
                            /\ UserPrefFile \in DOMAIN files
                            /\ files[UserPrefFile] =
                                  MarshalIndent(UserConfigToSave, UserConfigTags)

\* C4 witness: account:setup failed and the run ended with exit code 0 with
\* both records stored: the company taken from the stored preferences, the
\* user name from the current user DOM\u1, the email as typed.
C4_Witness ==
    /\ cmd = "create" /\ Exited /\ exitCode = 0
    /\ SomeFailed("account:setup")
    /\ SomeDone("SaveConfig") /\ SomeDone("SaveUserConfig")
    /\ locals.outputDirFlag = <<"o", "u", "t">>
    /\ files[WorkDir \o <<<<"o", "u", "t">>, <<"s", "h", "o", "p">>, DotNetsuiteCli>>] =
          MarshalIndent(ProjectConfig(<<"s", "h", "o", "p">>, <<"A", "c", "m", "e">>, <<"u", "1">>, <<"e", "@", "y">>),
                        ProjectConfigTags)
    /\ files[UserPrefFile] =
          MarshalIndent(UserConfig(<<"A", "c", "m", "e">>, <<"u", "1">>, <<"e", "@", "y">>), UserConfigTags)

-----------------------------------------------------------------------------
(* Exit codes of both commands                                              *)

\* The failures that are warnings: the run goes on.
WarningKinds ==
    IF cmd = "create"
    THEN {"LoadUserConfig", "mkdir", "account:setup", "SaveConfig", "SaveUserConfig"}
    ELSE {"template read"}

Failures == {i \in 1..Len(trace) : ~trace[i].ok}
FatalFailures == {i \in Failures : trace[i].ev \notin WarningKinds}

-----------------------------------------------------------------------------
(* The first step of each command, the root question and the record type    *)

\* C11: add loads the project preferences first: when the file is absent
\* the run ends with exit code 1 with that step alone done, no prompt
\* issued, no directory created and no file written; an absent user
\* preference file is no error: LoadUserConfig returns no record and no
\* error, and create goes on to its prompts.
C11_AbsentPreferences ==
    /\ (cmd = "add" /\ trace # <<>>) => trace[1].ev = "LoadConfig"
    /\ (cmd = "add" /\ JoinName(WorkDir, DotNetsuiteCli) \notin DOMAIN world.files
            /\ pc # "LoadConfig")
          => /\ Exited /\ exitCode = 1
             /\ trace = <<Ev("LoadConfig", ".netsuite-cli file not found", FALSE)>>
             /\ dirs = world.dirs /\ files = world.files
    /\ (cmd = "create" /\ UserPrefFile \notin DOMAIN world.files
            /\ pc \notin {"getSuiteCloudCommand", "LoadUserConfig"}
            /\ world.suitecloud # <<>>)
          => /\ trace[1] = Ev("LoadUserConfig", "nil", TRUE)
             /\ locals.userConfig = {}
             /\ Exited => Len(trace) > 1

\* C11 witness: add was run in a directory without a preference file.
C11_Witness ==
    /\ cmd = "add" /\ Exited /\ exitCode = 1
    /\ DOMAIN world.files = {}
    /\ trace = <<Ev("LoadConfig", ".netsuite-cli file not found", FALSE)>>
    /\ files = NoFiles /\ dirs = world.dirs

\* The answer given to the root question, as the program compares it.
Response == TrimSpace(ToLower(locals.response))

RootQuestions ==
    {i \in 1..Len(trace) : trace[i].ev = "prompt" /\ trace[i].what = "root question"}

\* C17: the root question is asked when the catalog is empty, and once;
\* the answers y and yes, in any case and with blanks around them, select
\* the root; every other answer ends the run with exit code 0 with no file
\* written.
C17_RootQuestion ==
    cmd = "add" =>
        /\ RootQuestions # {} => Len(locals.folders) = 0 /\ Cardinality(RootQuestions) = 1
        /\ pc = "menu" => Len(locals.folders) > 0
        /\ (\E i \in RootQuestions : trace[i].ok) =>
              IF Response \in {<<"y">>, <<"y", "e", "s">>}
              THEN /\ ~Cancelled
                   /\ locals.selectedFolder = <<>> /\ locals.selection = 0
                   /\ Exited /\ exitCode = 0 => ExpectedTsFile \in NewFiles
              ELSE /\ Cancelled /\ Exited /\ exitCode = 0
                   /\ trace[Len(trace)] = Ev("cancelled", "root question", TRUE)
                   /\ NewFiles = {}
        /\ Cancelled => RootQuestions # {}

\* C17 witness: the answer n to the root question, in a directory where the
\* destination root had to be created first.
C17_Witness ==
    /\ cmd = "add" /\ Exited /\ exitCode = 0 /\ Cancelled
    /\ locals.response = <<"n">>
    /\ NewFiles = {}
    /\ NewDirs # {}

\* The two script types with a record type.
RecordTypeCategories == {<<"u", "s", "e", "r", "e", "v", "e", "n", "t">>, <<"w", "o", "r", "k", "f", "l", "o", "w", "a", "c", "t", "i", "o", "n">>}

RecordTypePrompts ==
    {i \in 1..Len(trace) : trace[i].ev = "prompt" /\ trace[i].what = "record type"}

\* C18: add prompts for a record type exactly for userevent and
\* workflowaction; a blank answer ends the run with exit code 1 before the
\* templates are read, the destination root is located or created, the
\* folders are listed or a file is written; for every other script type the
\* RecordType of the template data is empty.
C18_RecordType ==
    cmd = "add" =>
        /\ RecordTypePrompts # {} => locals.scriptType \in RecordTypeCategories
        /\ (locals.scriptType \in RecordTypeCategories
                /\ pc \notin {"LoadConfig", "scriptName", "description", "recordType",
                              "exited"})
              => /\ Cardinality(RecordTypePrompts) = 1
                 /\ locals.recordType # <<>>
                 /\ locals.recordType = TrimSpace(locals.recordType)
        /\ \A i \in 1..Len(trace) :
              (trace[i].ev = "validate" /\ trace[i].what = "record type")
                => /\ AbortedAt(i)
                   /\ i - 1 \in RecordTypePrompts
                   /\ dirs = world.dirs /\ files = world.files
                   /\ locals.suiteScriptsDir = <<>> /\ locals.folders = <<>>
                   /\ ~Attempted("template read") /\ ~Attempted("mkdir")
                   /\ ~Attempted("renderAndWrite")
        /\ locals.scriptType \notin RecordTypeCategories
              => /\ locals.data.RecordType = <<>>
                 /\ \A p \in NewFiles :
                       "data" \in DOMAIN files[p] => files[p].data.RecordType = <<>>
        /\ (locals.scriptType \in RecordTypeCategories /\ TsWritten)
              => locals.data.RecordType = locals.recordType

\* C18 witness: a userevent script with a blank record type.
C18_Witness ==
    /\ cmd = "add" /\ Exited /\ exitCode = 1
    /\ locals.scriptType = <<"u", "s", "e", "r", "e", "v", "e", "n", "t">>
    /\ trace[Len(trace)] = Ev("validate", "record type", FALSE)
    /\ dirs = world.dirs /\ files = world.files

-----------------------------------------------------------------------------
(* SpecCatalog: findAllFolders over the trees below a destination root      *)

CatalogBase == <<"S", "u", "i", "t", "e", "S", "c", "r", "i", "p", "t", "s">>
CatalogRoot == WorkDir \o <<CatalogBase>>

\* The shapes of the folder lib and of the folder Util below the root.
LibShapes ==
    { {},
      {<<<<"l", "i", "b">>>>},
      {<<<<"l", "i", "b">>>>, <<<<"l", "i", "b">>, <<"x">>>>},
      {<<<<"l", "i", "b">>>>, <<<<"l", "i", "b">>, <<"x">>>>, <<<<"l", "i", "b">>, <<"x">>, <<"z">>>>},
      {<<<<"l", "i", "b">>>>, <<<<"l", "i", "b">>, <<"Y">>>>},
      {<<<<"l", "i", "b">>>>, <<<<"l", "i", "b">>, <<"x">>>>, <<<<"l", "i", "b">>, <<"Y">>>>},
      {<<<<"l", "i", "b">>>>, <<<<"l", "i", "b">>, <<"x">>>>, <<<<"l", "i", "b">>, <<"x">>, <<"z">>>>, <<<<"l", "i", "b">>, <<"Y">>>>} }
UtilShapes ==
    { {}, {<<<<"U", "t", "i", "l">>>>}, {<<<<"U", "t", "i", "l">>>>, <<<<"U", "t", "i", "l">>, <<"x">>>>} }

\* The files of a tree: one in the root, one in lib when it is there.
CatalogFiles(shape) ==
    [p \in {CatalogRoot \o <<<<"a", ".", "t", "s">>>>}
            \cup (IF <<<<"l", "i", "b">>>> \in shape THEN {CatalogRoot \o <<<<"l", "i", "b">>, <<"m", ".", "t", "s">>>>} ELSE {})
        |-> [kind |-> "text", tmpl |-> <<>>]]

\* The trees: a shape, at most one directory that cannot be read, a separator.
CatalogWorlds ==
    { [dirs |-> Ancestors(CatalogRoot) \cup {CatalogRoot \o p : p \in lib \cup util}
                   \cup {HomeDir},
       files |-> CatalogFiles(lib),
       unreadable |-> u,
       sep |-> s] :
        lib \in LibShapes, util \in UtilShapes, s \in {"/", "\\"},
        u \in {{}} \cup {{CatalogRoot \o p} : p \in {<<>>, <<<<"l", "i", "b">>>>, <<<<"l", "i", "b">>, <<"x">>>>, <<<<"U", "t", "i", "l">>>>}} }

CatalogInit ==
    /\ cmd = "findAllFolders"
    /\ pc = "findAllFolders"
    /\ exitCode = -1
    /\ trace = <<>>
    /\ cwd = WorkDir
    /\ templateFS = NoFiles
    /\ world \in CatalogWorlds
    /\ world.unreadable \subseteq world.dirs
    /\ dirs = world.dirs
    /\ files = world.files
    /\ unreadable = world.unreadable
    /\ sep = world.sep
    /\ locals = [baseDir |-> CatalogBase, folders |-> <<>>]

\* folders := findAllFolders(suiteScriptsDir, "")
CatalogFindAllFolders ==
    /\ cmd = "findAllFolders" /\ pc = "findAllFolders"
    /\ locals' = [locals EXCEPT !.folders = findAllFolders(locals.baseDir, <<>>)]
    /\ pc' = "returned"
    /\ UNCHANGED <<exitCode, trace, fsVars, dirs, envVars, strVars, prefVars>>

CatalogNext == CatalogFindAllFolders

InitCatalog == CatalogInit /\ NoStr /\ NoPrefs
SpecCatalog == InitCatalog /\ [][CatalogNext]_vars

\* The directories below the root that can be reached through directories
\* that can be read.
Reachable ==
    {d \in dirs :
        /\ Len(d) > Len(CatalogRoot) /\ IsPrefixOf(CatalogRoot, d)
        /\ \A k \in Len(CatalogRoot)..(Len(d) - 1) : SubSeq(d, 1, k) \notin unreadable}

\* The directory an entry of the catalog stands for, and its parent.
EntryDir(i) == Resolve(locals.folders[i].FullPath)
EntryParent(i) == SubSeq(EntryDir(i), 1, Len(EntryDir(i)) - 1)

\* The place of a name in the listing of a directory.
ListingIndex(dir, name) ==
    CHOOSE n \in 1..Len(ReadDir(dir)) : ReadDir(dir)[n] = name

\* C13: findAllFolders returns each subdirectory that can be reached once and
\* nothing else, every entry before its descendants and with its descendants
\* right after it, siblings in the order of the directory listing; a
\* directory that cannot be read is listed without descendants, and a root
\* without subdirectories gives the empty sequence.
C13_PreOrder ==
    (cmd = "findAllFolders" /\ pc = "returned") =>
        LET F == locals.folders
            I == 1..Len(F)
        IN  /\ Len(F) = Cardinality(Reachable)
            /\ {EntryDir(i) : i \in I} = Reachable
            /\ \A i, j \in I :
                  (i # j /\ IsPrefixOf(EntryDir(i), EntryDir(j))) => i < j
            /\ \A i, j, k \in I :
                  (i < j /\ j < k /\ IsPrefixOf(EntryDir(i), EntryDir(k)))
                      => IsPrefixOf(EntryDir(i), EntryDir(j))
            /\ \A i, j \in I :
                  (i < j /\ EntryParent(i) = EntryParent(j))
                      => ListingIndex(EntryParent(i), EntryDir(i)[Len(EntryDir(i))])
                           < ListingIndex(EntryParent(i), EntryDir(j)[Len(EntryDir(j))])
            /\ \A i \in I :
                  /\ SplitOn(F[i].Path, "/")
                        = SubSeq(EntryDir(i), Len(CatalogRoot) + 1, Len(EntryDir(i)))
                  /\ EntryDir(i) \in unreadable
                        => \A j \in I : j # i => ~IsPrefixOf(EntryDir(i), EntryDir(j))
            /\ (\A d \in dirs : ~(Len(d) = Len(CatalogRoot) + 1 /\ IsPrefixOf(CatalogRoot, d)))
                  => F = <<>>

\* C13 witness: on Windows, Util with x in it and a folder lib that cannot be
\* read, with x, x\z and Y in it: the catalog is Util, Util/x, lib.
C13_Witness ==
    /\ cmd = "findAllFolders" /\ pc = "returned"
    /\ sep = "\\"
    /\ unreadable = {CatalogRoot \o <<<<"l", "i", "b">>>>}
    /\ (CatalogRoot \o <<<<"l", "i", "b">>, <<"x">>, <<"z">>>>) \in dirs /\ (CatalogRoot \o <<<<"l", "i", "b">>, <<"Y">>>>) \in dirs
    /\ Len(locals.folders) = 3
    /\ locals.folders[1].Path = <<"U", "t", "i", "l">>
    /\ locals.folders[2].Path = <<"U", "t", "i", "l", "/", "x">>
    /\ locals.folders[2].FullPath = <<"S", "u", "i", "t", "e", "S", "c", "r", "i", "p", "t", "s", "\\", "U", "t", "i", "l", "\\", "x">>
    /\ locals.folders[3].Path = <<"l", "i", "b">>

-----------------------------------------------------------------------------
(* SpecSelector: selectScriptFolder and displayScrollableMenu over catalogs *)
(* of every length up to MaxEntries                                         *)

MaxEntries == 41

\* The name of the i-th folder: two digits, so that the order of the listing
\* is the order of the numbers.
TwoDigits(i) == <<Digits[(i \div 10) + 1], Digits[(i % 10) + 1]>>

\* A destination root with n folders in it.
SelectorWorlds ==
    { [dirs |-> Ancestors(CatalogRoot) \cup {CatalogRoot \o <<TwoDigits(i)>> : i \in 1..n}
                   \cup {HomeDir},
       files |-> NoFiles, unreadable |-> {}, sep |-> "/"] : n \in 0..MaxEntries }

\* The lines typed at the menu.
SelectorLines ==
    {<<"0">>, <<"0", "0">>, <<"+", "0">>, <<"1">>, <<" ", "7", " ">>, <<"2", "0">>, <<"2", "1">>, <<"4", "0">>, <<"4", "1">>,
     <<"4", "2">>, <<"4", "3">>, <<"9", "9">>, <<"+", "2">>, <<"-", "1">>, <<"n">>, <<"p">>, <<" ", "N", " ">>, <<"P">>,
     <<"n", "n">>, <<"n", "1">>, <<"x">>, <<"1", ".", "0">>, <<>>}

SelectorLocals ==
    [suiteScriptsDir |-> CatalogBase, folders |-> <<>>, totalPages |-> 0,
     currentPage |-> 0, pageBefore |-> 0, shown |-> <<>>, asked |-> FALSE,
     read |-> <<>>, outcome |-> "none", message |-> "none",
     selectedFolder |-> <<>>, scriptPath |-> <<>>]

SelectorInit ==
    /\ cmd = "selectScriptFolder"
    /\ pc = "findAllFolders"
    /\ exitCode = -1
    /\ trace = <<>>
    /\ cwd = WorkDir
    /\ templateFS = NoFiles
    /\ world \in SelectorWorlds
    /\ dirs = world.dirs
    /\ files = world.files
    /\ unreadable = world.unreadable
    /\ sep = world.sep
    /\ locals = SelectorLocals

\* The page displayed at the top of the loop of displayScrollableMenu:
\* start and end, the entries start+1..end being printed.
Displayed(folders, currentPage) ==
    <<PageStart(currentPage), PageEnd(folders, currentPage)>>

\* selectScriptFolder up to its first read: the catalog, then the question
\* about the root or the first page of the menu.
SelectorFindAllFolders ==
    /\ cmd = "selectScriptFolder" /\ pc = "findAllFolders"
    /\ LET folders == findAllFolders(locals.suiteScriptsDir, <<>>)
       IN  IF Len(folders) = 0
           THEN /\ locals' = [locals EXCEPT !.folders = folders, !.asked = TRUE]
                /\ pc' = "rootQuestion"
           ELSE /\ locals' = [locals EXCEPT !.folders = folders,
                                            !.totalPages = totalPages(folders),
                                            !.currentPage = 0,
                                            !.shown = Displayed(folders, 0)]
                /\ pc' = "menu"
    /\ UNCHANGED <<exitCode, trace, fsVars, dirs, envVars, strVars, prefVars>>

\* The answer to "Place script in SuiteScripts root? (y/n)".
SelectorRootQuestion ==
    /\ cmd = "selectScriptFolder" /\ pc = "rootQuestion"
    /\ \E line \in RootLines \cup {EOF} :
        IF line = EOF
        THEN /\ trace' = Append(trace, Ev("prompt", "root question", FALSE))
             /\ Exit(1) /\ UNCHANGED locals
        ELSE IF ~AnswersYes(line)
        THEN /\ trace' = Append(trace, Ev("cancelled", "root question", TRUE))
             /\ locals' = [locals EXCEPT !.read = <<line>>]
             /\ Exit(0)
        ELSE /\ locals' = [locals EXCEPT !.read = <<line>>,
                                         !.outcome = "selected",
                                         !.selectedFolder = <<>>,
                                         !.scriptPath = scriptPathPrefix]
             /\ pc' = "returned"
             /\ UNCHANGED <<exitCode, trace>>
    /\ UNCHANGED <<fsVars, dirs, envVars, strVars, prefVars>>

\* The message printed for a line that neither moves nor selects.
InvalidMessage(line) ==
    IF ~AtoiOk(TrimSpace(ToLower(line))) THEN "enter a number"
    ELSE "choose between 0 and N"

\* One round of the loop of displayScrollableMenu: the line read, what it
\* does, and the page displayed when the loop goes round again.
SelectorMenuRound ==
    /\ cmd = "selectScriptFolder" /\ pc = "menu"
    /\ \E line \in SelectorLines \cup {EOF} :
        IF line = EOF
        THEN /\ trace' = Append(trace, Ev("prompt", "menu", FALSE))
             /\ locals' = [locals EXCEPT !.read = <<>>, !.outcome = "none",
                                         !.message = "none"]
             /\ Exit(1)
        ELSE LET r == MenuRound(locals.folders, locals.currentPage, line)
             IN  /\ UNCHANGED <<exitCode, trace>>
                 /\ IF r.kind = "selected"
                    THEN /\ locals' = [locals EXCEPT
                                          !.read = <<line>>,
                                          !.pageBefore = locals.currentPage,
                                          !.outcome = "selected",
                                          !.message = "none",
                                          !.selectedFolder = r.path,
                                          !.scriptPath = scriptPathPrefix]
                         /\ pc' = "returned"
                    ELSE /\ locals' = [locals EXCEPT
                                          !.read = <<line>>,
                                          !.pageBefore = locals.currentPage,
                                          !.outcome = r.kind,
                                          !.message = IF r.kind = "invalid"
                                                      THEN InvalidMessage(line)
                                                      ELSE "none",
                                          !.currentPage = r.page,
                                          !.shown = Displayed(locals.folders, r.page)]
                         /\ pc' = "menu"
    /\ UNCHANGED <<fsVars, dirs, envVars, strVars, prefVars>>

SelectorNext ==
    \/ SelectorFindAllFolders
    \/ SelectorRootQuestion
    \/ SelectorMenuRound

InitSelector == SelectorInit /\ NoStr /\ NoPrefs
SpecSelector == InitSelector /\ [][SelectorNext]_vars

\* The selector has its catalog; the number of entries; the line read last,
\* trimmed and in lower case; the selector is in its menu or has left it.
InSelector == cmd = "selectScriptFolder" /\ pc # "findAllFolders"
Entries == Len(locals.folders)
LineRead == locals.read # <<>>
LastInput == TrimSpace(ToLower(locals.read[1]))
MenuLineRead == InSelector /\ Entries >= 1 /\ LineRead

\* The least k with N <= 20 k.
CeilOverPageSize(n) == CHOOSE k \in 0..n : pageSize * (k - 1) < n /\ n <= pageSize * k

\* The subdirectories of the destination root.
RootFolders ==
    {d \in dirs : Len(d) = Len(CatalogRoot) + 1 /\ IsPrefixOf(CatalogRoot, d)}

\* C12: the number of pages of a catalog of N entries is the least k with
\* N <= 20 k; with no entry the menu is never displayed and the question
\* about the root is asked, and with an entry the menu is displayed and the
\* question is never asked.
C12_PageCount ==
    InSelector =>
        /\ Entries = Cardinality(RootFolders)
        /\ totalPages(locals.folders) = CeilOverPageSize(Entries)
        /\ Entries >= 1 =>
              /\ locals.totalPages = CeilOverPageSize(Entries)
              /\ locals.shown # <<>> /\ ~locals.asked /\ pc # "rootQuestion"
        /\ Entries = 0 =>
              /\ locals.shown = <<>> /\ locals.asked /\ pc # "menu"
              /\ locals.outcome \in {"none", "selected"}

\* C12 witness: 21 entries make two pages, and the second shows entry 21.
C12_Witness ==
    /\ InSelector /\ Entries = 21 /\ pc = "menu"
    /\ locals.totalPages = 2 /\ locals.currentPage = 1
    /\ locals.shown = <<20, 21>>

\* C14: with N >= 1 entries, on any page, a line that parses as 0 ends the
\* selector with the root (the empty path) and a line that parses as i in
\* 1..N ends it with the i-th entry of the whole catalog.
C14_Selection ==
    (MenuLineRead /\ AtoiOk(LastInput)) =>
        /\ Atoi(LastInput) = 0 =>
              /\ pc = "returned" /\ locals.outcome = "selected"
              /\ locals.selectedFolder = <<>>
              /\ locals.scriptPath = scriptPathPrefix
        /\ Atoi(LastInput) \in 1..Entries =>
              /\ pc = "returned" /\ locals.outcome = "selected"
              /\ locals.selectedFolder = locals.folders[Atoi(LastInput)].Path
              /\ locals.selectedFolder = TwoDigits(Atoi(LastInput))
              /\ locals.scriptPath = scriptPathPrefix

\* C14 witness: on the first page of 41 entries, 41 selects the last entry,
\* which is on the third page.
C14_Witness ==
    /\ MenuLineRead /\ Entries = 41 /\ pc = "returned"
    /\ locals.pageBefore = 0 /\ locals.shown = <<0, 20>>
    /\ locals.read = <<<<"4", "1">>>>
    /\ locals.selectedFolder = <<"4", "1">>

\* The page a round started on, the last page, and a round that went round
\* again without an end of the selector.
PageBefore == locals.pageBefore
LastPage == locals.totalPages - 1
WentRound ==
    /\ pc = "menu" /\ exitCode = -1
    /\ locals.selectedFolder = <<>> /\ locals.scriptPath = <<>>
    /\ locals.shown = <<pageSize * locals.currentPage,
                        IF pageSize * locals.currentPage + pageSize > Entries
                        THEN Entries
                        ELSE pageSize * locals.currentPage + pageSize>>

\* C15: n, trimmed and in any case, moves to the next page when there is one
\* and p to the previous page when the page is not the first, and the menu
\* is displayed again; n on the last page and p on the first leave the page
\* as it was and the selector asks again with an error.
C15_Navigation ==
    MenuLineRead =>
        /\ (LastInput = <<"n">> /\ PageBefore < LastPage) =>
              /\ WentRound /\ locals.outcome = "page"
              /\ locals.currentPage = PageBefore + 1
        /\ (LastInput = <<"p">> /\ PageBefore > 0) =>
              /\ WentRound /\ locals.outcome = "page"
              /\ locals.currentPage = PageBefore - 1
        /\ (LastInput = <<"n">> /\ PageBefore >= LastPage) =>
              /\ WentRound /\ locals.outcome = "invalid"
              /\ locals.message = "enter a number"
              /\ locals.currentPage = PageBefore
        /\ (LastInput = <<"p">> /\ PageBefore = 0) =>
              /\ WentRound /\ locals.outcome = "invalid"
              /\ locals.message = "enter a number"
              /\ locals.currentPage = PageBefore

\* C15 witness: " N " on the second page of three moves to the third.
C15_Witness ==
    /\ MenuLineRead /\ Entries = 41
    /\ locals.read = <<<<" ", "N", " ">>>>
    /\ locals.pageBefore = 1 /\ locals.currentPage = 2
    /\ locals.shown = <<40, 41>> /\ pc = "menu"

\* A line that moves to another page.
Navigates ==
    \/ LastInput = <<"n">> /\ PageBefore < LastPage
    \/ LastInput = <<"p">> /\ PageBefore > 0

\* C16: a line that parses as an integer outside 0..N, or that is neither an
\* integer nor a move to another page, ends nothing and leaves the page as
\* it was: the selector asks again on the same page, and the directories
\* and files are those it started with.
C16_Invalid ==
    MenuLineRead =>
        ((IF AtoiOk(LastInput)
          THEN Atoi(LastInput) < 0 \/ Atoi(LastInput) > Entries
          ELSE ~Navigates)
            => /\ WentRound /\ locals.outcome = "invalid"
               /\ locals.currentPage = PageBefore
               /\ dirs = world.dirs /\ files = world.files)

\* C16 witness: 42 on the second page of 41 entries.
C16_Witness ==
    /\ MenuLineRead /\ Entries = 41 /\ pc = "menu"
    /\ locals.read = <<<<"4", "2">>>>
    /\ locals.outcome = "invalid" /\ locals.message = "choose between 0 and N"
    /\ locals.pageBefore = 1 /\ locals.currentPage = 1
    /\ locals.shown = <<20, 40>>

\* C19: with N >= 1 entries the page is always one of 0..pages-1, the page
\* displayed is never empty and shows entries within 1..N, and the selector
\* starts on page 0.
C19_PageRange ==
    (InSelector /\ Entries >= 1) =>
        /\ locals.currentPage \in 0..(CeilOverPageSize(Entries) - 1)
        /\ Len(locals.shown) = 2
        /\ locals.shown[1] < locals.shown[2]
        /\ \A i \in (locals.shown[1] + 1)..locals.shown[2] : i \in 1..Entries
        /\ locals.shown[1] = pageSize * locals.currentPage
        /\ (pc = "menu" /\ locals.outcome = "none") =>
              locals.currentPage = 0 /\ locals.shown[1] = 0

\* C19 witness: after n twice and then n again on the last page of 40
\* entries, the page is still the second and shows entries 21 to 40.
C19_Witness ==
    /\ InSelector /\ Entries = 40 /\ pc = "menu"
    /\ locals.read = <<<<"n">>>> /\ locals.outcome = "invalid"
    /\ locals.currentPage = 1 /\ locals.shown = <<20, 40>>

-----------------------------------------------------------------------------
(* SpecPrefs: the preference store under every sequence of saves and loads  *)

\* The records of SpecPrefs: fields that are empty, ASCII, a two-byte rune
\* (U+00E9) and an invalid byte.
PrefDirs == {WorkDir, HomeDir}

ProjectConfigs ==
    {ProjectConfig(<<"p">>, <<"A">>, <<"a">>, <<"m">>),
     ProjectConfig(<<"p">>, <<bC3, bA9>>, <<"a">>, <<>>),
     ProjectConfig(<<bFF, "p">>, <<"A">>, <<>>, <<"m">>),
     ProjectConfig(<<>>, <<>>, <<>>, <<>>)}
UserConfigs ==
    {UserConfig(<<"A">>, <<"a">>, <<"m">>),
     UserConfig(<<>>, <<bC3, bA9>>, <<>>),
     UserConfig(<<"A">>, <<"a", bC3>>, <<>>)}

PrefsInit ==
    /\ files = NoFiles
    /\ cwd = WorkDir
    /\ NoStr /\ NoPrefs /\ NoRun

\* What a save does to the record of successful saves (the last record and
\* the one before it, per path): a failed write that truncated the file
\* leaves no saved record behind.
Remember(path, config, outcome) ==
    CASE outcome = "ok" ->
            [q \in DOMAIN saved \cup {path} |->
                IF q # path THEN saved[q]
                ELSE [last |-> config,
                      prev |-> IF path \in DOMAIN saved THEN {saved[path].last}
                               ELSE {}]]
      [] outcome = "write failed" -> [q \in DOMAIN saved \ {path} |-> saved[q]]
      [] OTHER -> saved

PrefSaveConfig ==
    \E dir \in PrefDirs, config \in ProjectConfigs, outcome \in WriteOutcomes :
        /\ files' = SaveConfig(files, dir, config, outcome)
        /\ prefResult' = [op |-> "SaveConfig", err |-> SaveErr(outcome)]
        /\ saved' = Remember(JoinName(dir, DotNetsuiteCli), config, outcome)
        /\ UNCHANGED <<cwd, strVars, dirs, envVars, runVars>>

PrefSaveUserConfig ==
    \E config \in UserConfigs, outcome \in WriteOutcomes :
        /\ files' = SaveUserConfig(files, config, outcome)
        /\ prefResult' = [op |-> "SaveUserConfig", err |-> SaveErr(outcome)]
        /\ saved' = Remember(JoinName(HomeDir, DotNetsuiteCli), config, outcome)
        /\ UNCHANGED <<cwd, strVars, dirs, envVars, runVars>>

\* A later process, started in dir, loads the project record.
PrefLoadConfig ==
    \E dir \in PrefDirs, outcome \in ReadOutcomes :
        /\ cwd' = dir
        /\ prefResult' = [op |-> "LoadConfig", dir |-> dir]
                           @@ LoadConfig(files, dir, outcome)
        /\ UNCHANGED <<files, saved, strVars, dirs, envVars, runVars>>

PrefLoadUserConfig ==
    \E outcome \in ReadOutcomes :
        /\ prefResult' = [op |-> "LoadUserConfig"]
                           @@ LoadUserConfig(files, outcome)
        /\ UNCHANGED <<files, cwd, saved, strVars, dirs, envVars, runVars>>

PrefsNext ==
    PrefSaveConfig \/ PrefSaveUserConfig \/ PrefLoadConfig \/ PrefLoadUserConfig

SpecPrefs == PrefsInit /\ [][PrefsNext]_vars

RECURSIVE ValidFrom(_, _)
ValidFrom(s, i) ==
    i > Len(s) \/ (ValidRuneAt(s, i) /\ ValidFrom(s, i + RuneWidth(s, i)))

\* utf8.ValidString(s)
ValidUTF8(s) == ValidFrom(s, 1)

\* The record a load of the given struct is expected to return after the
\* save of config: the fields the two structs share, the others empty.
AsLoaded(config, tags) ==
    [f \in DOMAIN tags |-> IF f \in DOMAIN config THEN config[f] ELSE <<>>]

PrefLoaded == prefResult.op \in {"LoadConfig", "LoadUserConfig"}
PrefLoadedPath ==
    JoinName(IF prefResult.op = "LoadConfig" THEN prefResult.dir ELSE HomeDir,
             DotNetsuiteCli)
PrefLoadedTags ==
    IF prefResult.op = "LoadConfig" THEN ProjectConfigTags ELSE UserConfigTags

\* C10 as stated: a load returns the last record saved to the file, equal in
\* every field.
C10_AsStated ==
    (PrefLoaded /\ PrefLoadedPath \in DOMAIN saved
       /\ prefResult.err # "error reading config file") =>
        /\ prefResult.err = "nil"
        /\ prefResult.config = AsLoaded(saved[PrefLoadedPath].last, PrefLoadedTags)

\* C10, amended: a load returns the record of the last successful save to
\* that file, equal in every field that is valid UTF-8; a field with invalid
\* bytes comes back with each invalid byte replaced by U+FFFD.  Nothing of
\* the record saved before it is kept: a field the last save left empty is
\* empty.
C10_RoundTrip ==
    (PrefLoaded /\ PrefLoadedPath \in DOMAIN saved
       /\ prefResult.err # "error reading config file") =>
        LET want == AsLoaded(saved[PrefLoadedPath].last, PrefLoadedTags)
            got == prefResult.config
        IN  /\ prefResult.err = "nil"
            /\ DOMAIN got = DOMAIN PrefLoadedTags
            /\ \A f \in DOMAIN got :
                  /\ ValidUTF8(want[f]) => got[f] = want[f]
                  /\ want[f] = <<>> => got[f] = <<>>
                  /\ ValidUTF8(got[f])
                  /\ ~ValidUTF8(want[f]) => got[f] = CoerceUTF8(want[f])

\* C10 witness: a project record with empty fields was saved over one that
\* had them set, and a process started in that directory has loaded it.
C10_Witness ==
    /\ prefResult.op = "LoadConfig"
    /\ prefResult.err = "nil"
    /\ prefResult.dir = WorkDir
    /\ JoinName(WorkDir, DotNetsuiteCli) \in DOMAIN saved
    /\ saved[JoinName(WorkDir, DotNetsuiteCli)].prev
          = {ProjectConfig(<<"p">>, <<"A">>, <<"a">>, <<"m">>)}
    /\ saved[JoinName(WorkDir, DotNetsuiteCli)].last
          = ProjectConfig(<<"p">>, <<bC3, bA9>>, <<"a">>, <<>>)
    /\ prefResult.config = ProjectConfig(<<"p">>, <<bC3, bA9>>, <<"a">>, <<>>)

-----------------------------------------------------------------------------
(* SpecStr: the derivations of runAdd applied to every bounded string        *)

MaxLen == 4

StrAlphabet == {" ", "\t", "A", "a", bC3, b89, bFF}

RECURSIVE SeqsUpTo(_, _)
SeqsUpTo(S, n) ==
    IF n = 0 THEN {<<>>}
    ELSE LET shorter == SeqsUpTo(S, n - 1)
         IN  shorter \cup {Append(s, x) : s \in {t \in shorter : Len(t) = n - 1}, x \in S}

StrInit ==
    /\ strIn \in SeqsUpTo(StrAlphabet, MaxLen)
    /\ strOut = NoResults
    /\ files = NoFiles
    /\ cwd = WorkDir
    /\ NoPrefs /\ NoRun

\* companyPrefix := GetCompanyPrefix(companyName)
ApplyGetCompanyPrefix ==
    /\ "companyPrefix" \notin DOMAIN strOut
    /\ strOut' = strOut @@ ("companyPrefix" :> GetCompanyPrefix(strIn))
    /\ UNCHANGED <<strIn, fsVars, prefVars, dirs, envVars, runVars>>

\* scriptId and deploymentId from the script name
ApplyDeriveIds ==
    /\ "scriptId" \notin DOMAIN strOut
    /\ strOut' = strOut @@ ("scriptId" :> ScriptIdOf(strIn))
                         @@ ("deploymentId" :> DeploymentIdOf(strIn))
    /\ UNCHANGED <<strIn, fsVars, prefVars, dirs, envVars, runVars>>

\* the derivation applied to a script name that is itself a derived identifier
ApplyDeriveAgain ==
    /\ "scriptId" \in DOMAIN strOut
    /\ "scriptIdAgain" \notin DOMAIN strOut
    /\ strOut' = strOut @@ ("scriptIdAgain" :> ScriptIdOf(strOut["scriptId"]))
    /\ UNCHANGED <<strIn, fsVars, prefVars, dirs, envVars, runVars>>

StrNext == ApplyGetCompanyPrefix \/ ApplyDeriveIds \/ ApplyDeriveAgain

SpecStr == StrInit /\ [][StrNext]_vars

\* The first n bytes of s, or all of s when it is shorter.
AtMost(s, n) == SubSeq(s, 1, IF Len(s) < n THEN Len(s) ELSE n)

C9_DerivedIds ==
    /\ "scriptId" \in DOMAIN strOut =>
          LET id == strOut["scriptId"]
              low == ToLower(strIn)
          IN  /\ Len(id) = Len(low)
              /\ \A i \in 1..Len(id) :
                    id[i] = IF low[i] = " " THEN "_" ELSE low[i]
              /\ \A i \in 1..Len(id) : id[i] # " " /\ id[i] \notin AsciiUpper
              /\ strOut["deploymentId"] = StrCustomDeploy \o id
    /\ "scriptIdAgain" \in DOMAIN strOut =>
          strOut["scriptIdAgain"] = strOut["scriptId"]

\* C9 witness: a name with an upper-case letter, a space and an invalid byte
\* has been derived, and the derivation has been applied to its result.
C9_Witness ==
    /\ "scriptIdAgain" \in DOMAIN strOut
    /\ strIn = <<"A", " ", bFF>>
    /\ strOut["scriptId"] = <<"a", "_">> \o RuneErrorBytes
    /\ strOut["deploymentId"] = StrCustomDeploy \o <<"a", "_">> \o RuneErrorBytes

====
